---- MODULE Spec2Model ----
(***************************************************************************)
(* Shortzo: the reel store (MongoDB through mongoose), its denormalised    *)
(* category counters and user indexes, the Cloudinary blob store, and the  *)
(* Express request handlers that touch them.                               *)
(*                                                                         *)
(* A request handler is an async function: between two awaits it runs      *)
(* without interruption, and every awaited store operation is one atomic   *)
(* step of the database.  Each handler is therefore modelled as a process  *)
(* whose steps are its awaited store operations; the synchronous code      *)
(* that follows an await belongs to the step of that await.                *)
(*                                                                         *)
(* reel.save() is mongoose's delta update of a loaded document:            *)
(*   - an array grown with push() is written as $push of the new          *)
(*     elements (appended to whatever the store holds then), __v + 1;      *)
(*   - an array changed with splice() is written as $set of the whole      *)
(*     in-memory array, guarded by "where __v = the loaded __v"            *)
(*     (VersionError when it no longer matches), __v + 1;                  *)
(*   - a scalar path is written ($set) only when its value differs from    *)
(*     the loaded one;                                                     *)
(*   - the update of a document that is gone fails.                        *)
(* Time is counted in hours.  A request takes far less than one TickStep,  *)
(* so the clock advances only while no request is in flight.               *)
(***************************************************************************)
EXTENDS Integers, Sequences, FiniteSets, TLC

\* ---------------------------------------------------------------- bounds
\* engagement specification
EngageUsers == 2
EngageProcs == 2
MaxReq      == 3
LedgerReq   == 3
CounterReq  == 5
ReconReq    == 2
TickStep    == 12
MaxTime     == 36
\* ledger and reconciliation specifications
LedgerReels  == 2
LedgerUsers  == 2
LedgerProcs  == 2
CounterReels == 3
CounterUsers == 2
ReconReels   == 2
ReconProcs   == 1
\* batch validation specification
BatchReels == 3
MaxBatch   == 3
BatchReq   == 2
\* user index specification
IndexUsers == 2
IndexProcs == 2
IndexReq   == 3
\* concurrent counter specification
StoredReels == 2
NewReels    == 2
AtomicProcs == 2
\* sequential like specification
ToggleUsers == 2
ToggleReq   == 3
\* score specification
ScoreEvents == 2
ScoreReq    == 2
ShapeUsers  == 4
ShapeReq    == 4
AbortReels  == 3
AbortUsers  == 2
AbortReq    == 2
FrameUsers  == 2
FrameProcs  == 2
FrameReq    == 2
FeedReels   == 2
FeedReq     == 2
PageReels   == 3
MaxPage     == 2
MaxLimit    == 2
PageReq     == 2

\* ------------------------------------------------------ program constants
Window            == 24
TrendingThreshold == 50
WeightView        == 1
WeightLike        == 3
WeightComment     == 5
WeightShare       == 7
FeedBatch         == 5
SweepBatch        == 10
HttpNotFound      == 404
DefaultLimit      == 20

Anon == 0

\* Two of the fourteen category names of the enum: "Comedy" is one of the
\* names seedCategories.js inserts, "News" is not.
Cats       == {"Comedy", "News"}
SeededCats == {"Comedy"}

\* Comment counts a stored reel may start with (each comment weighs 5).
InitComments == {0, 8, 10}

Role(u) == IF u = 1 THEN "admin" ELSE "user"

VARIABLES
  reels,        \* Reel collection: id -> document (exists = FALSE: no document)
  categories,   \* Category collection: name -> [present, reelsCount]
  userReels,    \* User.reels: user -> set of reel ids
  likedReels,   \* User.likedReels: user -> set of reel ids
  savedReels,   \* User.savedReels: user -> set of reel ids
  preferredCategories,  \* User.preferredCategories: user -> set of names
  blobs,        \* Cloudinary: the reel ids whose video resource exists
  now,          \* the clock, in hours
  nextId,       \* the next fresh reel id
  pc,           \* per request process: its position
  req,          \* per request process: its locals
  budget        \* requests that may still be started

vars == <<reels, categories, userReels, likedReels, savedReels, preferredCategories,
         blobs, now, nextId, pc, req, budget>>

\* each specification fixes its own id spaces in its initial state
ReelIds == DOMAIN reels
Users   == DOMAIN userReels
Procs   == DOMAIN pc

NoReel == [exists |-> FALSE, author |-> 0, category |-> "", cloudinaryVideoId |-> 0,
           isActive |-> FALSE, isApproved |-> FALSE, isTrending |-> FALSE,
           isNSFW |-> FALSE,
           likes |-> <<>>, views |-> <<>>, shares |-> <<>>, comments |-> 0, v |-> 0]

NoReq == [op |-> "none", reel |-> 0, user |-> 0, orig |-> NoReel, doc |-> NoReel,
          arr |-> "none", status |-> 0, flag |-> FALSE, at |-> 0, n |-> 0,
          found |-> <<>>, checks |-> {}, valid |-> <<>>, invalid |-> <<>>, i |-> 0,
          body |-> "", prefs |-> {},
          category |-> "", userId |-> 0, page |-> 0, limit |-> 0, saved |-> {},
          data |-> <<>>, pagination |-> <<>>, blobError |-> FALSE,
          chunks |-> 0, sleeps |-> 0]

\* -------------------------------------------------------- reel methods
RECURSIVE CountIf(_, _, _)
\* number of entries of log s by user u (u = Anon: any user) newer than `after`
CountIf(s, u, after) ==
  IF s = <<>> THEN 0
  ELSE (IF (u = Anon \/ Head(s).user = u) /\ Head(s).at > after THEN 1 ELSE 0)
       + CountIf(Tail(s), u, after)

RemoveAt(s, i) == SubSeq(s, 1, i - 1) \o SubSeq(s, i + 1, Len(s))

\* Array.prototype.findIndex over likes: the first index, 0 for JavaScript's -1
likeIndex(likes, userId) ==
  IF \E i \in 1..Len(likes) : likes[i].user = userId
  THEN CHOOSE i \in 1..Len(likes) :
         /\ likes[i].user = userId
         /\ \A j \in 1..(i - 1) : likes[j].user # userId
  ELSE 0

addLikeAdds(doc, userId) == likeIndex(doc.likes, userId) = 0

\* a toggle that only ever adds
addLikeOnlyAdds(doc, userId, t) ==
  [doc EXCEPT !.likes = Append(@, [user |-> userId, at |-> t])]

addLike(doc, userId, t) ==
  IF likeIndex(doc.likes, userId) = 0
  THEN [doc EXCEPT !.likes = Append(@, [user |-> userId, at |-> t])]
  ELSE [doc EXCEPT !.likes = RemoveAt(@, likeIndex(doc.likes, userId))]

recentView(doc, userId, t) ==
  \E i \in 1..Len(doc.views) :
    doc.views[i].user = userId /\ doc.views[i].at > t - Window

addViewCounts(doc, userId, t) == ~recentView(doc, userId, t)

addView(doc, userId, t) ==
  IF ~recentView(doc, userId, t)
  THEN [doc EXCEPT !.views = Append(@, [user |-> userId, at |-> t])]
  ELSE doc

\* a score that counts events of any age
scoreOfAllTime(doc, t) ==
    (Len(doc.views) * WeightView) + (Len(doc.likes) * WeightLike)
  + (doc.comments * WeightComment) + (Len(doc.shares) * WeightShare)

getEngagementScore(doc, t) ==
    (CountIf(doc.views, Anon, t - Window) * WeightView)
  + (CountIf(doc.likes, Anon, t - Window) * WeightLike)
  + (doc.comments * WeightComment)
  + (CountIf(doc.shares, Anon, t - Window) * WeightShare)

\* a hook whose threshold is inclusive
preSaveInclusive(doc, t) ==
  [doc EXCEPT !.isTrending = getEngagementScore(doc, t) >= TrendingThreshold]

preSave(doc, t) == [doc EXCEPT !.isTrending = getEngagementScore(doc, t) > TrendingThreshold]

\* ------------------------------------------------------ mongoose save()
Pushed(new, old) == SubSeq(new, Len(old) + 1, Len(new))

Modified(orig, doc, arr) ==
  \/ arr # "none"
  \/ doc.isTrending # orig.isTrending
  \/ doc.isActive # orig.isActive
  \/ doc.isApproved # orig.isApproved
  \/ doc.category # orig.category
  \/ doc.isNSFW # orig.isNSFW

SaveFails(st, orig, doc, arr) ==
  /\ Modified(orig, doc, arr)
  /\ \/ ~st.exists
     \/ arr = "likes_set" /\ st.v # orig.v

\* A save that writes the whole document as the request holds it.
SaveApplyWholeDocument(st, orig, doc, arr) == [doc EXCEPT !.v = st.v + 1]

SaveApply(st, orig, doc, arr) ==
  [st EXCEPT
     !.likes      = IF arr = "likes_push" THEN @ \o Pushed(doc.likes, orig.likes)
                    ELSE IF arr = "likes_set" THEN doc.likes ELSE @,
     !.views      = IF arr = "views_push" THEN @ \o Pushed(doc.views, orig.views) ELSE @,
     !.shares     = IF arr = "shares_push" THEN @ \o Pushed(doc.shares, orig.shares) ELSE @,
     !.comments   = IF arr = "comments_push" THEN @ + (doc.comments - orig.comments) ELSE @,
     !.isTrending = IF doc.isTrending # orig.isTrending THEN doc.isTrending ELSE @,
     !.isActive   = IF doc.isActive # orig.isActive THEN doc.isActive ELSE @,
     !.isApproved = IF doc.isApproved # orig.isApproved THEN doc.isApproved ELSE @,
     !.category   = IF doc.category # orig.category THEN doc.category ELSE @,
     !.isNSFW     = IF doc.isNSFW # orig.isNSFW THEN doc.isNSFW ELSE @,
     !.v          = IF arr # "none" THEN @ + 1 ELSE @]

\* ---------------------------------------------------- request plumbing
Idle(p)  == pc[p] = "idle"
AllIdle  == \A p \in Procs : pc[p] = "idle"
CanStart == budget > 0

Goto(p, where, r) ==
  /\ pc'  = [pc EXCEPT ![p] = where]
  /\ req' = [req EXCEPT ![p] = r]

Reply(p, r, code) == Goto(p, "done", [r EXCEPT !.status = code])

SaveStep(p) ==
  LET q  == req[p]
      st == reels[q.reel]
  IN IF SaveFails(st, q.orig, q.doc, q.arr)
     THEN /\ UNCHANGED reels
          /\ Reply(p, q, 500)
     ELSE /\ reels' = [reels EXCEPT ![q.reel] = SaveApply(st, q.orig, q.doc, q.arr)]
          /\ Reply(p, q, 200)

\* ------------------------------------------- POST /api/reels/:id/like
LikeFind(p, id, u) ==
  /\ Idle(p) /\ CanStart
  /\ budget' = budget - 1
  /\ LET reel == reels[id]
         q    == [NoReq EXCEPT !.op = "like", !.reel = id, !.user = u, !.orig = reel,
                               !.at = now, !.n = budget]
     IN IF ~reel.exists
        THEN Reply(p, q, 404)
        ELSE Goto(p, "like_save",
                  [q EXCEPT !.flag = addLikeAdds(reel, u),
                            !.arr  = IF addLikeAdds(reel, u) THEN "likes_push" ELSE "likes_set",
                            !.doc  = preSave(addLike(reel, u, now), now)])
  /\ UNCHANGED <<reels, categories, userReels, likedReels, savedReels, preferredCategories, blobs, now, nextId>>

LikeSave(p) ==
  /\ pc[p] = "like_save"
  /\ LET q  == req[p]
         st == reels[q.reel]
     IN IF SaveFails(st, q.orig, q.doc, q.arr)
        THEN /\ UNCHANGED reels
             /\ Reply(p, q, 500)
        ELSE /\ reels' = [reels EXCEPT ![q.reel] = SaveApply(st, q.orig, q.doc, q.arr)]
             /\ Goto(p, "like_user", q)
  /\ UNCHANGED <<categories, userReels, likedReels, savedReels, preferredCategories, blobs, now, nextId, budget>>

LikeUser(p) ==
  /\ pc[p] = "like_user"
  /\ likedReels' = [likedReels EXCEPT ![req[p].user] =
                      IF req[p].flag THEN @ \cup {req[p].reel} ELSE @ \ {req[p].reel}]
  /\ Reply(p, req[p], 200)
  /\ UNCHANGED <<savedReels, preferredCategories, reels, categories, userReels, blobs, now, nextId, budget>>

\* Whether any like is stored: isLiked without looking at the requester.
someLikeAtAll(doc, u) == doc.likes # <<>>

\* reel.likes?.some(like => like.user.toString() === req.user._id.toString())
someLikeOf(doc, u) == \E k \in 1..Len(doc.likes) : doc.likes[k].user = u

\* The item GET /api/reels sends for a document: the document with the
\* counts and the two flags added and likes, shares and views deleted.
reelWithStats(doc, u, saved) ==
  [id |-> doc.id, cloudinaryVideoId |-> doc.cloudinaryVideoId, author |-> doc.author,
   category |-> doc.category, isActive |-> doc.isActive, isApproved |-> doc.isApproved,
   isNSFW |-> doc.isNSFW, isTrending |-> doc.isTrending, comments |-> doc.comments,
   likesCount |-> Len(doc.likes), commentsCount |-> doc.comments,
   sharesCount |-> Len(doc.shares), viewsCount |-> Len(doc.views),
   isLiked |-> IF u # Anon THEN someLikeOf(doc, u) ELSE FALSE,
   isSaved |-> IF u # Anon THEN doc.id \in saved ELSE FALSE]

\* The reelData GET /api/reels/:id sends for the document it holds.
reelData(doc, id, u, saved) == reelWithStats([id |-> id] @@ doc, u, saved)

\* ------------------------------------------------ GET /api/reels/:id
ViewFind(p, id, u) ==
  /\ Idle(p) /\ CanStart
  /\ budget' = budget - 1
  /\ LET reel == reels[id]
         q    == [NoReq EXCEPT !.op = "view", !.reel = id, !.user = u, !.orig = reel,
                               !.at = now, !.n = budget]
     IN IF ~reel.exists
        THEN Reply(p, q, 404)
        ELSE IF ~reel.isActive \/ ~reel.isApproved
        THEN Reply(p, q, 404)
        ELSE IF u = Anon
        THEN Reply(p, [q EXCEPT !.doc = reel, !.data = <<reelData(reel, id, u, {})>>], 200)
        ELSE Goto(p, "view_save",
                  [q EXCEPT !.data = <<reelData(addView(reel, u, now), id, u, savedReels[u])>>,
                            !.flag = addViewCounts(reel, u, now),
                            !.arr  = IF addViewCounts(reel, u, now) THEN "views_push" ELSE "none",
                            !.doc  = preSave(addView(reel, u, now), now)])
  /\ UNCHANGED <<reels, categories, userReels, likedReels, savedReels, preferredCategories, blobs, now, nextId>>

ViewSave(p) ==
  /\ pc[p] = "view_save"
  /\ SaveStep(p)
  /\ UNCHANGED <<categories, userReels, likedReels, savedReels, preferredCategories, blobs, now, nextId, budget>>

\* ------------------------------------------ POST /api/reels/:id/share
ShareFind(p, id, u) ==
  /\ Idle(p) /\ CanStart
  /\ budget' = budget - 1
  /\ LET reel == reels[id]
         q    == [NoReq EXCEPT !.op = "share", !.reel = id, !.user = u, !.orig = reel,
                               !.at = now, !.n = budget]
     IN IF ~reel.exists
        THEN Reply(p, q, 404)
        ELSE Goto(p, "share_save",
                  [q EXCEPT !.flag = TRUE,
                            !.arr  = "shares_push",
                            !.doc  = preSave([reel EXCEPT !.shares =
                                         Append(@, [user |-> u, at |-> now])], now)])
  /\ UNCHANGED <<reels, categories, userReels, likedReels, savedReels, preferredCategories, blobs, now, nextId>>

ShareSave(p) ==
  /\ pc[p] = "share_save"
  /\ SaveStep(p)
  /\ UNCHANGED <<categories, userReels, likedReels, savedReels, preferredCategories, blobs, now, nextId, budget>>

\* the response has been sent: the process serves the next request
Respond(p) ==
  /\ pc[p] = "done"
  /\ Goto(p, "idle", NoReq)
  /\ UNCHANGED <<reels, categories, userReels, likedReels, savedReels, preferredCategories, blobs, now, nextId, budget>>

Tick ==
  /\ AllIdle
  /\ now + TickStep <= MaxTime
  /\ now' = now + TickStep
  /\ UNCHANGED <<reels, categories, userReels, likedReels, savedReels, preferredCategories, blobs, nextId, pc, req, budget>>

\* --------------------------------------------- engagement specification
\* One stored reel (id 1, by user 1, in Comedy), active or removed by a
\* moderator, with some comments; id 2 references no reel.
InitEngage ==
  /\ \E active \in BOOLEAN, c \in InitComments :
       reels = [r \in 1..2 |->
                  IF r = 1
                  THEN [NoReel EXCEPT !.exists = TRUE, !.author = 1, !.category = "Comedy",
                                      !.cloudinaryVideoId = 1, !.isActive = active,
                                      !.isApproved = TRUE, !.comments = c]
                  ELSE NoReel]
  /\ categories = [c \in Cats |-> IF c = "Comedy" THEN [present |-> TRUE, reelsCount |-> 1]
                                  ELSE [present |-> FALSE, reelsCount |-> 0]]
  /\ userReels = [u \in 1..EngageUsers |-> IF u = 1 THEN {1} ELSE {}]
  /\ likedReels = [u \in 1..EngageUsers |-> {}]
  /\ savedReels = [u \in 1..EngageUsers |-> {}]
  /\ preferredCategories = [u \in 1..EngageUsers |-> {}]
  /\ blobs = {1}
  /\ now = 0
  /\ nextId = 2
  /\ pc = [p \in 1..EngageProcs |-> "idle"]
  /\ req = [p \in 1..EngageProcs |-> NoReq]
  /\ budget = MaxReq

NextEngage ==
  \/ \E p \in Procs, id \in ReelIds, u \in Users : LikeFind(p, id, u)
  \/ \E p \in Procs : LikeSave(p)
  \/ \E p \in Procs : LikeUser(p)
  \/ \E p \in Procs, id \in ReelIds, u \in Users \cup {Anon} : ViewFind(p, id, u)
  \/ \E p \in Procs : ViewSave(p)
  \/ \E p \in Procs, id \in ReelIds, u \in Users : ShareFind(p, id, u)
  \/ \E p \in Procs : ShareSave(p)
  \/ \E p \in Procs : Respond(p)
  \/ Tick

SpecEngage == InitEngage /\ [][NextEngage]_vars

\* ------------------------------------------------- engagement properties
LikesBy(r, u) == Cardinality({i \in 1..Len(reels[r].likes) : reels[r].likes[i].user = u})
LikesIn(doc, u) == Cardinality({i \in 1..Len(doc.likes) : doc.likes[i].user = u})

Finished(p, op) == pc[p] = "done" /\ req[p].op = op

\* C1: in every reachable state a reel's likes hold at most one entry per
\* actor id.
C1_AtMostOneLikePerActor ==
  \A r \in ReelIds, u \in Users : LikesBy(r, u) <= 1

\* C2: two toggleLike calls of one actor on one reel that follow each other
\* directly (nothing else started between them), overlapping or not, end as
\* if run one after the other: both succeed, one adds and the other removes,
\* and the actor's like is as it was before the two calls.
C2_SameActorTogglesSerialize ==
  \A p, q \in Procs :
    ( /\ Finished(p, "like") /\ Finished(q, "like")
      /\ req[q].n = req[p].n - 1
      /\ req[p].reel = req[q].reel /\ req[p].user = req[q].user
      /\ req[p].orig.exists )
    => /\ req[p].status = 200 /\ req[q].status = 200
       /\ req[p].flag # req[q].flag
       /\ LikesBy(req[p].reel, req[p].user) = LikesIn(req[p].orig, req[p].user)

\* C3: of two recordView calls of one actor on one reel made less than 24
\* hours apart, overlapping or not, at most one appends a view entry.
C3_SameActorViewsCountOnce ==
  \A p, q \in Procs :
    ( /\ p # q
      /\ Finished(p, "view") /\ Finished(q, "view")
      /\ req[p].reel = req[q].reel /\ req[p].user = req[q].user
      /\ req[p].status = 200 /\ req[q].status = 200
      /\ req[p].at - req[q].at < Window /\ req[q].at - req[p].at < Window )
    => ~(req[p].flag /\ req[q].flag)

\* C7: a view is counted exactly when the reel holds no view entry of the
\* actor from the preceding 24 hours, so no two stored view entries of one
\* actor are less than 24 hours apart.
C7_ViewsOfAnActorADayApart ==
  \A r \in ReelIds :
    \A i, j \in 1..Len(reels[r].views) :
      (i < j /\ reels[r].views[i].user = reels[r].views[j].user)
      => reels[r].views[j].at - reels[r].views[i].at >= Window

SaveDone(p) ==
  /\ req[p].orig.isActive
  /\ \/ pc[p] = "like_save" /\ pc'[p] = "like_user"
     \/ pc[p] \in {"view_save", "share_save"} /\ pc'[p] = "done" /\ req'[p].status = 200

\* C8: after every successful toggleLike, recordView or recordShare the
\* stored isTrending equals (engagement score of the stored reel > 50), and
\* isTrending is written by nothing but the save of a reel document.
C8_TrendingFollowsScore ==
  [][ /\ \A p \in Procs :
           SaveDone(p) =>
             reels'[req[p].reel].isTrending
               = (getEngagementScore(reels'[req[p].reel], now) > TrendingThreshold)
      /\ \A r \in ReelIds :
           reels'[r].isTrending # reels[r].isTrending
             => \E p \in Procs : /\ pc[p] \in {"like_save", "view_save", "share_save"}
                                  /\ pc'[p] # pc[p] /\ req[p].reel = r
    ]_vars

\* C9: toggleLike, recordView and recordShare on an id that references no
\* reel with isActive = true answer 404 and leave the reels unchanged.
C9_InactiveIsNotFound ==
  [][ \A p \in Procs :
        ( /\ pc[p] = "idle" /\ pc'[p] # "idle"
          /\ req'[p].op \in {"like", "view", "share"}
          /\ ~(reels[req'[p].reel].exists /\ reels[req'[p].reel].isActive) )
        => /\ pc'[p] = "done" /\ req'[p].status = 404
    ]_vars

\* ------------------------------------------------- category counters
\* an increment without upsert: a category without a document stays without
incReelsCountNoUpsert(cat) ==
  IF cat.present THEN [cat EXCEPT !.reelsCount = @ + 1] ELSE cat

\* Category.findOneAndUpdate({name}, {$inc: {reelsCount: 1}}, {upsert: true})
incReelsCount(cat) == [present |-> TRUE, reelsCount |-> cat.reelsCount + 1]

\* a decrement that is lost
decReelsCountLost(cat) == cat

\* Category.updateOne({name}, {$inc: {reelsCount: -1}}): no document, no update
decReelsCount(cat) == IF cat.present THEN [cat EXCEPT !.reelsCount = @ - 1] ELSE cat

NoCategory == [present |-> FALSE, reelsCount |-> 0]

\* ---------------------------------------------- POST /api/reels (create)
\* uploadToCloudinary stores the video; its public_id is numbered like the reel
CreateUpload(p, u, cat) ==
  /\ Idle(p) /\ CanStart
  /\ budget' = budget - 1
  /\ nextId \in ReelIds
  /\ nextId' = nextId + 1
  /\ blobs' = blobs \cup {nextId}
  /\ Goto(p, "create_save",
          [NoReq EXCEPT !.op = "create", !.reel = nextId, !.user = u, !.body = cat])
  /\ UNCHANGED <<reels, categories, userReels, likedReels, savedReels, preferredCategories, now>>

NewReel(id, u, cat, t) ==
  preSave([NoReel EXCEPT !.exists = TRUE, !.author = u, !.category = cat,
                         !.cloudinaryVideoId = id, !.isActive = TRUE, !.isApproved = TRUE], t)

CreateSave(p) ==
  /\ pc[p] = "create_save"
  /\ reels' = [reels EXCEPT ![req[p].reel] =
                 NewReel(req[p].reel, req[p].user, req[p].body, now)]
  /\ Goto(p, "create_user", req[p])
  /\ UNCHANGED <<categories, userReels, likedReels, savedReels, preferredCategories, blobs, now, nextId, budget>>

CreateUser(p) ==
  /\ pc[p] = "create_user"
  /\ userReels' = [userReels EXCEPT ![req[p].user] = @ \cup {req[p].reel}]
  /\ Goto(p, "create_category", req[p])
  /\ UNCHANGED <<reels, categories, likedReels, savedReels, preferredCategories, blobs, now, nextId, budget>>

CreateCategory(p) ==
  /\ pc[p] = "create_category"
  /\ categories' = [categories EXCEPT ![req[p].body] = incReelsCount(@)]
  /\ Reply(p, req[p], 201)
  /\ UNCHANGED <<reels, userReels, likedReels, savedReels, preferredCategories, blobs, now, nextId, budget>>

\* ------------------------------------------------ PUT /api/reels/:id
\* sent: the allowed fields the body defines, of which the model keeps
\* category and isNSFW; each of them is copied onto the document.
UpdateRequest(p, id, u, sent, cat, nsfw) ==
  /\ Idle(p) /\ CanStart
  /\ budget' = budget - 1
  /\ LET reel == reels[id]
         q    == [NoReq EXCEPT !.op = "update", !.reel = id, !.user = u, !.orig = reel,
                               !.body = IF "category" \in sent THEN cat ELSE ""]
     IN IF ~reel.exists
        THEN Reply(p, q, 404)
        ELSE IF reel.author # u
        THEN Reply(p, q, 403)
        ELSE Goto(p, "update_save",
                  [q EXCEPT !.doc = preSave(
                     [reel EXCEPT !.category = IF "category" \in sent THEN cat ELSE @,
                                  !.isNSFW   = IF "isNSFW" \in sent THEN nsfw ELSE @], now)])
  /\ UNCHANGED <<reels, categories, userReels, likedReels, savedReels, preferredCategories, blobs, now, nextId>>

\* The update that sends a category only.
UpdateFind(p, id, u, cat) == UpdateRequest(p, id, u, {"category"}, cat, FALSE)

UpdateSave(p) ==
  /\ pc[p] = "update_save"
  /\ SaveStep(p)
  /\ UNCHANGED <<categories, userReels, likedReels, savedReels, preferredCategories, blobs, now, nextId, budget>>

\* --------------------------------------------- DELETE /api/reels/:id
DeleteFind(p, id, u) ==
  /\ Idle(p) /\ CanStart
  /\ budget' = budget - 1
  /\ LET reel == reels[id]
         q    == [NoReq EXCEPT !.op = "delete", !.reel = id, !.user = u, !.orig = reel]
     IN IF ~reel.exists
        THEN Reply(p, q, 404)
        ELSE IF reel.author # u /\ Role(u) # "admin"
        THEN Reply(p, q, 403)
        ELSE IF reel.cloudinaryVideoId # 0
        THEN Goto(p, "delete_blob", q)
        ELSE Goto(p, "delete_user", q)
  /\ UNCHANGED <<reels, categories, userReels, likedReels, savedReels, preferredCategories, blobs, now, nextId>>

\* deleteFromCloudinary with an error that reaches the caller of the delete.
DeleteBlobPropagates(p) ==
  /\ pc[p] = "delete_blob"
  /\ \E destroyed \in BOOLEAN :
       /\ blobs' = IF destroyed THEN blobs \ {req[p].orig.cloudinaryVideoId} ELSE blobs
       /\ IF destroyed THEN Goto(p, "delete_user", req[p])
          ELSE Reply(p, [req[p] EXCEPT !.blobError = TRUE], 500)
  /\ UNCHANGED <<reels, categories, userReels, likedReels, savedReels, preferredCategories, now, nextId, budget>>

\* deleteFromCloudinary: it destroys the resource, or throws; the handler
\* catches the cloudinaryError and goes on
DeleteBlob(p) ==
  /\ pc[p] = "delete_blob"
  /\ \E destroyed \in BOOLEAN :
       /\ blobs' = IF destroyed THEN blobs \ {req[p].orig.cloudinaryVideoId} ELSE blobs
       /\ Goto(p, "delete_user", [req[p] EXCEPT !.blobError = ~destroyed])
  /\ UNCHANGED <<reels, categories, userReels, likedReels, savedReels, preferredCategories, now, nextId, budget>>

DeleteUser(p) ==
  /\ pc[p] = "delete_user"
  /\ userReels' = [userReels EXCEPT ![req[p].orig.author] = @ \ {req[p].reel}]
  /\ Goto(p, "delete_category", req[p])
  /\ UNCHANGED <<reels, categories, likedReels, savedReels, preferredCategories, blobs, now, nextId, budget>>

DeleteCategory(p) ==
  /\ pc[p] = "delete_category"
  /\ categories' = [categories EXCEPT ![req[p].orig.category] = decReelsCount(@)]
  /\ Goto(p, "delete_reel", req[p])
  /\ UNCHANGED <<reels, userReels, likedReels, savedReels, preferredCategories, blobs, now, nextId, budget>>

DeleteReel(p) ==
  /\ pc[p] = "delete_reel"
  /\ reels' = [reels EXCEPT ![req[p].reel] = NoReel]
  /\ Reply(p, req[p], 200)
  /\ UNCHANGED <<categories, userReels, likedReels, savedReels, preferredCategories, blobs, now, nextId, budget>>

\* --------------------------------- POST /api/admin/reports/resolve (reel)
ResolveFind(p, id, u, action) ==
  /\ Idle(p) /\ CanStart
  /\ budget' = budget - 1
  /\ LET reel == reels[id]
         q    == [NoReq EXCEPT !.op = "resolve", !.reel = id, !.user = u, !.orig = reel,
                               !.body = action]
     IN IF Role(u) \notin {"admin", "moderator"}
        THEN Reply(p, q, 403)
        ELSE IF ~reel.exists
        THEN Reply(p, q, 404)
        ELSE Goto(p, "resolve_save",
                  [q EXCEPT !.doc = preSave(IF action = "remove"
                                            THEN [reel EXCEPT !.isActive = FALSE]
                                            ELSE reel, now)])
  /\ UNCHANGED <<reels, categories, userReels, likedReels, savedReels, preferredCategories, blobs, now, nextId>>

ResolveSave(p) ==
  /\ pc[p] = "resolve_save"
  /\ SaveStep(p)
  /\ UNCHANGED <<categories, userReels, likedReels, savedReels, preferredCategories, blobs, now, nextId, budget>>

\* ------------------------------------------------------ seedCategories.js
SeedClear(p) ==
  /\ Idle(p) /\ CanStart
  /\ budget' = budget - 1
  /\ categories' = [c \in DOMAIN categories |-> NoCategory]
  /\ Goto(p, "seed_insert", [NoReq EXCEPT !.op = "seed"])
  /\ UNCHANGED <<reels, userReels, likedReels, savedReels, preferredCategories, blobs, now, nextId>>

\* insertMany: a name that is there again already (unique index) is not inserted
SeedInsert(p) ==
  /\ pc[p] = "seed_insert"
  /\ categories' = [c \in DOMAIN categories |->
                      IF c \in SeededCats /\ ~categories[c].present
                      THEN [present |-> TRUE, reelsCount |-> 0]
                      ELSE categories[c]]
  /\ Reply(p, req[p], 0)
  /\ UNCHANGED <<reels, userReels, likedReels, savedReels, preferredCategories, blobs, now, nextId, budget>>

\* ------------------------------------------------- cloudinaryValidator
\* what cloudinary.api.resource answers: 200 and the resource, or an error
\* with its http_code (0: an error without one, such as a timeout)
ApiOutcomes(publicId) ==
  (IF publicId \in blobs THEN {200} ELSE {HttpNotFound}) \cup {420, 0}

\* a check that takes every error for absence
checkTakesErrorForAbsence(outcome) == outcome = 200

checkCloudinaryResourceExists(outcome) ==
  IF outcome = 200 THEN TRUE
  ELSE IF outcome = HttpNotFound THEN FALSE
  ELSE TRUE

Min(a, b) == IF a < b THEN a ELSE b

RECURSIVE SeqAsc(_)
SeqAsc(S) ==
  IF S = {} THEN <<>>
  ELSE LET m == CHOOSE x \in S : \A y \in S : x <= y IN <<m>> \o SeqAsc(S \ {m})

RECURSIVE SeqDesc(_)
SeqDesc(S) ==
  IF S = {} THEN <<>>
  ELSE LET m == CHOOSE x \in S : \A y \in S : x >= y IN <<m>> \o SeqDesc(S \ {m})

Lean(ids) == [k \in 1..Len(ids) |->
                [id |-> ids[k], cloudinaryVideoId |-> reels[ids[k]].cloudinaryVideoId]]

\* One chunk of validateReelsBatch: the checks of reels[i .. i + batchSize - 1]
\* are issued together and awaited together; an item without
\* cloudinaryVideoId is invalid without a call.
\* A delay after every chunk, the last one included.
delayFollowsAlways(i, batchSize, n) == i + batchSize <= n

\* if (i + batchSize < reels.length): a delay follows the chunk that starts
\* after item i
delayFollows(i, batchSize, n) == i + batchSize < n

ValidateChunk(p, batchSize, sleepPc, nextPc, cleanPc) ==
  LET q     == req[p]
      chunk == (q.i + 1)..Min(q.i + batchSize, Len(q.found))
      idx   == [j \in 1..(Min(q.i + batchSize, Len(q.found)) - q.i) |-> q.i + j]
  IN \E outcome \in [chunk -> {200, HttpNotFound, 420, 0}] :
       /\ \A k \in chunk :
            IF q.found[k].cloudinaryVideoId = 0 THEN outcome[k] = 200
            ELSE outcome[k] \in ApiOutcomes(q.found[k].cloudinaryVideoId)
       /\ LET isValid(k) == /\ q.found[k].cloudinaryVideoId # 0
                            /\ checkCloudinaryResourceExists(outcome[k])
              ok  == SelectSeq(idx, LAMBDA k : isValid(k))
              bad == SelectSeq(idx, LAMBDA k : ~isValid(k))
              q2  == [q EXCEPT
                        !.valid   = @ \o [j \in 1..Len(ok) |-> q.found[ok[j]].id],
                        !.invalid = @ \o [j \in 1..Len(bad) |-> q.found[bad[j]].id],
                        !.checks  = @ \cup {<<q.found[k].id, outcome[k]>> :
                                              k \in {c \in chunk : q.found[c].cloudinaryVideoId # 0}},
                        !.i       = q.i + batchSize,
                        !.chunks  = @ + 1]
          IN IF delayFollows(q.i, batchSize, Len(q.found))
             THEN Goto(p, sleepPc, q2)
             ELSE IF q2.invalid = <<>>
             THEN IF cleanPc = "done" THEN Reply(p, [q2 EXCEPT !.i = 0], 200)
                  ELSE Goto(p, cleanPc, [q2 EXCEPT !.i = 0])
             ELSE Goto(p, nextPc, [q2 EXCEPT !.i = 0])

\* the delay between two chunks
Sleep(p) ==
  /\ pc[p] \in {"feed_sleep", "sweep_sleep", "batch_sleep"}
  /\ Goto(p, CASE pc[p] = "feed_sleep"  -> "feed_validate"
              [] pc[p] = "sweep_sleep" -> "sweep_validate"
              [] pc[p] = "batch_sleep" -> "batch_validate",
          [req[p] EXCEPT !.sleeps = @ + 1])
  /\ UNCHANGED <<reels, categories, userReels, likedReels, savedReels, preferredCategories, blobs, now, nextId, budget>>

\* --------------------------------------------- GET /api/reels (the feed)
\* req.user.preferredCategories?.includes('NSFW'); no req.user for a guest.
optedIn(u, prefs) == u # Anon /\ "NSFW" \in prefs

\* A filter without the NSFW exclusion.
feedFilterShowsAll(doc, u, prefs, category, userId) ==
  /\ doc.exists /\ doc.isActive /\ doc.isApproved
  /\ (userId # 0 => doc.author = userId)
  /\ (category # "" => doc.category = category)

\* The filter of GET /api/reels: isActive and isApproved always, author and
\* category when given, isNSFW: {$ne: true} unless the requester opted in.
feedFilter(doc, u, prefs, category, userId) ==
  /\ doc.exists /\ doc.isActive /\ doc.isApproved
  /\ (userId # 0 => doc.author = userId)
  /\ (~optedIn(u, prefs) => ~doc.isNSFW)
  /\ (category # "" => doc.category = category)

\* The documents a feed query returns (.lean()), as read by the find.
LeanReel(ids) == [k \in 1..Len(ids) |->
                    [id |-> ids[k], cloudinaryVideoId |-> reels[ids[k]].cloudinaryVideoId,
                     author |-> reels[ids[k]].author, category |-> reels[ids[k]].category,
                     isActive |-> reels[ids[k]].isActive,
                     isApproved |-> reels[ids[k]].isApproved,
                     isNSFW |-> reels[ids[k]].isNSFW,
                     isTrending |-> reels[ids[k]].isTrending,
                     likes |-> reels[ids[k]].likes, views |-> reels[ids[k]].views,
                     shares |-> reels[ids[k]].shares, comments |-> reels[ids[k]].comments]]

\* .skip(skip).limit(limit) with skip = (page - 1) * limit
Paged(all, page, limit) ==
  SubSeq(all, (page - 1) * limit + 1, Min((page - 1) * limit + limit, Len(all)))

\* Math.ceil(a / b) for b >= 1
Ceil(a, b) == (a + b - 1) \div b

\* The item GET /api/reels/trending and GET /api/categories/:slug send: the
\* whole document with the counts and isLiked added.
reelSpreadWithStats(doc, u) ==
  [id |-> doc.id, cloudinaryVideoId |-> doc.cloudinaryVideoId, author |-> doc.author,
   category |-> doc.category, isActive |-> doc.isActive, isApproved |-> doc.isApproved,
   isNSFW |-> doc.isNSFW, isTrending |-> doc.isTrending, comments |-> doc.comments,
   likes |-> doc.likes, views |-> doc.views, shares |-> doc.shares,
   likesCount |-> Len(doc.likes), commentsCount |-> doc.comments,
   sharesCount |-> Len(doc.shares), viewsCount |-> Len(doc.views),
   isLiked |-> IF u # Anon THEN someLikeOf(doc, u) ELSE FALSE]

\* GET /api/reels by requester u (Anon: no token): the find of one page, up
\* to the validation.
FeedRequest(p, u, category, userId, page, limit, shouldValidate) ==
  /\ Idle(p) /\ CanStart
  /\ budget' = budget - 1
  /\ LET prefs == IF u = Anon THEN {} ELSE preferredCategories[u]
         all   == SeqDesc({r \in ReelIds :
                             feedFilter(reels[r], u, prefs, category, userId)})
         found == LeanReel(Paged(all, page, limit))
         q     == [NoReq EXCEPT !.op = "feed", !.user = u, !.prefs = prefs,
                                !.saved = IF u = Anon THEN {} ELSE savedReels[u],
                                !.category = category, !.userId = userId,
                                !.page = page, !.limit = limit, !.found = found]
     IN IF shouldValidate /\ found # <<>>
        THEN Goto(p, "feed_validate", q)
        ELSE Goto(p, "feed_count", [q EXCEPT !.valid = [k \in 1..Len(found) |-> found[k].id]])
  /\ UNCHANGED <<reels, categories, userReels, likedReels, savedReels, preferredCategories,
                 blobs, now, nextId>>

\* The request without page and limit: parseInt(undefined) || 1 and || 20.
FeedQuery(p, u, category, userId, shouldValidate) ==
  FeedRequest(p, u, category, userId, 1, DefaultLimit, shouldValidate)

\* The feed as a guest asks for it, without category or author.
FeedFind(p, shouldValidate) == FeedQuery(p, Anon, "", 0, shouldValidate)

\* GET /api/reels/trending: the same filter with isTrending: true, no
\* validation, no page; the items are the documents with the counts added.
TrendingQuery(p, u) ==
  /\ Idle(p) /\ CanStart
  /\ budget' = budget - 1
  /\ LET prefs == IF u = Anon THEN {} ELSE preferredCategories[u]
         found == LeanReel(Paged(SeqDesc({r \in ReelIds :
                                            /\ feedFilter(reels[r], u, prefs, "", 0)
                                            /\ reels[r].isTrending}), 1, DefaultLimit))
     IN Reply(p, [NoReq EXCEPT !.op = "trending", !.user = u, !.prefs = prefs,
                               !.found = found,
                               !.valid = [k \in 1..Len(found) |-> found[k].id],
                               !.data = [k \in 1..Len(found) |->
                                           reelSpreadWithStats(found[k], u)]], 200)
  /\ UNCHANGED <<reels, categories, userReels, likedReels, savedReels, preferredCategories,
                 blobs, now, nextId>>

FeedValidate(p) ==
  /\ pc[p] = "feed_validate"
  /\ ValidateChunk(p, FeedBatch, "feed_sleep", "feed_mark", "feed_count")
  /\ UNCHANGED <<reels, categories, userReels, likedReels, savedReels, preferredCategories, blobs, now, nextId, budget>>

\* markInvalidReelsInactive: Reel.updateMany({_id: {$in: ids}}, {$set: {isActive: false}})
markInvalidReelsInactive(rs, invalidReelIds) ==
  [r \in DOMAIN rs |->
     IF rs[r].exists /\ r \in invalidReelIds THEN [rs[r] EXCEPT !.isActive = FALSE] ELSE rs[r]]

Range(s) == {s[k] : k \in 1..Len(s)}

FeedMark(p) ==
  /\ pc[p] = "feed_mark"
  /\ reels' = markInvalidReelsInactive(reels, Range(req[p].invalid))
  /\ Goto(p, "feed_count", req[p])
  /\ UNCHANGED <<categories, userReels, likedReels, savedReels, preferredCategories, blobs, now, nextId, budget>>

\* The shaping of the validated reels, then Reel.countDocuments(filter) and
\* the answer with its pagination.
FeedCount(p) ==
  /\ pc[p] = "feed_count"
  /\ LET q          == req[p]
         kept       == SelectSeq(q.found, LAMBDA d : d.id \in Range(q.valid))
         totalReels == Cardinality({r \in ReelIds :
                         feedFilter(reels[r], q.user, q.prefs, q.category, q.userId)})
     IN Reply(p, [q EXCEPT !.data = [k \in 1..Len(kept) |->
                                       reelWithStats(kept[k], q.user, q.saved)],
                           !.pagination = [currentPage |-> q.page,
                                           totalPages  |-> Ceil(totalReels, q.limit),
                                           totalReels  |-> totalReels]], 200)
  /\ UNCHANGED <<reels, categories, userReels, likedReels, savedReels, preferredCategories,
                 blobs, now, nextId, budget>>

\* -------------------------------------- POST /api/reels/cleanup-orphaned
SweepFind(p, u) ==
  /\ Idle(p) /\ CanStart
  /\ budget' = budget - 1
  /\ LET allReels == Lean(SeqAsc({r \in ReelIds : reels[r].exists}))
         q        == [NoReq EXCEPT !.op = "sweep", !.user = u, !.found = allReels]
     IN IF allReels = <<>>
        THEN Reply(p, q, 200)
        ELSE Goto(p, "sweep_validate", q)
  /\ UNCHANGED <<reels, categories, userReels, likedReels, savedReels, preferredCategories, blobs, now, nextId>>

SweepValidate(p) ==
  /\ pc[p] = "sweep_validate"
  /\ ValidateChunk(p, SweepBatch, "sweep_sleep", "sweep_lookup", "done")
  /\ UNCHANGED <<reels, categories, userReels, likedReels, savedReels, preferredCategories, blobs, now, nextId, budget>>

\* the loop over invalidReelIds: req.i entries are done
SweepAdvance(p, q) ==
  IF q.i + 1 = Len(q.invalid)
  THEN Reply(p, [q EXCEPT !.i = @ + 1], 200)
  ELSE Goto(p, "sweep_lookup", [q EXCEPT !.i = @ + 1])

SweepLookup(p) ==
  /\ pc[p] = "sweep_lookup"
  /\ LET id   == req[p].invalid[req[p].i + 1]
         reel == reels[id]
     IN IF reel.exists
        THEN Goto(p, "sweep_pull", [req[p] EXCEPT !.reel = id, !.orig = reel])
        ELSE SweepAdvance(p, req[p])
  /\ UNCHANGED <<reels, categories, userReels, likedReels, savedReels, preferredCategories, blobs, now, nextId, budget>>

SweepPull(p) ==
  /\ pc[p] = "sweep_pull"
  /\ userReels' = [u \in DOMAIN userReels |-> userReels[u] \ {req[p].reel}]
  /\ Goto(p, "sweep_category", req[p])
  /\ UNCHANGED <<reels, categories, likedReels, savedReels, preferredCategories, blobs, now, nextId, budget>>

SweepCategory(p) ==
  /\ pc[p] = "sweep_category"
  /\ categories' = [categories EXCEPT ![req[p].orig.category] = decReelsCount(@)]
  /\ Goto(p, "sweep_delete", req[p])
  /\ UNCHANGED <<reels, userReels, likedReels, savedReels, preferredCategories, blobs, now, nextId, budget>>

SweepDelete(p) ==
  /\ pc[p] = "sweep_delete"
  /\ reels' = [reels EXCEPT ![req[p].reel] = NoReel]
  /\ SweepAdvance(p, req[p])
  /\ UNCHANGED <<categories, userReels, likedReels, savedReels, preferredCategories, blobs, now, nextId, budget>>

\* a video disappears from Cloudinary out of band
BlobLost(id) ==
  /\ id \in blobs
  /\ blobs' = blobs \ {id}
  /\ UNCHANGED <<reels, categories, userReels, likedReels, savedReels, preferredCategories, now, nextId, pc, req, budget>>

\* ------------------------------------------------- ledger specification
\* An empty database; every handler that touches reels, counters or blobs.
InitLedger ==
  /\ reels = [r \in 1..LedgerReels |-> NoReel]
  /\ categories = [c \in Cats |-> NoCategory]
  /\ userReels = [u \in 1..LedgerUsers |-> {}]
  /\ likedReels = [u \in 1..LedgerUsers |-> {}]
  /\ savedReels = [u \in 1..LedgerUsers |-> {}]
  /\ preferredCategories = [u \in 1..LedgerUsers |-> {}]
  /\ blobs = {}
  /\ now = 0
  /\ nextId = 1
  /\ pc = [p \in 1..LedgerProcs |-> "idle"]
  /\ req = [p \in 1..LedgerProcs |-> NoReq]
  /\ budget = LedgerReq

NextCatalog ==
  \/ \E p \in Procs, u \in Users, cat \in Cats : CreateUpload(p, u, cat)
  \/ \E p \in Procs : CreateSave(p)
  \/ \E p \in Procs : CreateUser(p)
  \/ \E p \in Procs : CreateCategory(p)
  \/ \E p \in Procs, id \in ReelIds, u \in Users, cat \in Cats : UpdateFind(p, id, u, cat)
  \/ \E p \in Procs : UpdateSave(p)
  \/ \E p \in Procs, id \in ReelIds, u \in Users : DeleteFind(p, id, u)
  \/ \E p \in Procs : DeleteBlob(p)
  \/ \E p \in Procs : DeleteUser(p)
  \/ \E p \in Procs : DeleteCategory(p)
  \/ \E p \in Procs : DeleteReel(p)
  \/ \E p \in Procs, id \in ReelIds, u \in Users, action \in {"remove", "dismiss"} :
       ResolveFind(p, id, u, action)
  \/ \E p \in Procs : ResolveSave(p)
  \/ \E p \in Procs, shouldValidate \in BOOLEAN : FeedFind(p, shouldValidate)
  \/ \E p \in Procs : FeedValidate(p)
  \/ \E p \in Procs : FeedMark(p)
  \/ \E p \in Procs : FeedCount(p)
  \/ \E p \in Procs, u \in Users : SweepFind(p, u)
  \/ \E p \in Procs : SweepValidate(p)
  \/ \E p \in Procs : SweepLookup(p)
  \/ \E p \in Procs : SweepPull(p)
  \/ \E p \in Procs : SweepCategory(p)
  \/ \E p \in Procs : SweepDelete(p)
  \/ \E id \in ReelIds : BlobLost(id)
  \/ \E p \in Procs : Respond(p)

\* the API handlers alone
SpecCatalog == InitLedger /\ [][NextCatalog]_vars

\* the API handlers and the seeding script
NextLedger ==
  \/ NextCatalog
  \/ \E p \in Procs : SeedClear(p)
  \/ \E p \in Procs : SeedInsert(p)

SpecLedger == InitLedger /\ [][NextLedger]_vars

\* -------------------------------------------------- counter properties
Quiet == \A p \in Procs : pc[p] \in {"idle", "done"}

\* C4: no category's reelsCount is ever below zero, whatever creates,
\* deletes (replayed or concurrent duplicates included), orphan cleanups
\* and seedings have run.
C4_CountersNeverNegative ==
  \A c \in Cats : categories[c].reelsCount >= 0

ActiveIn(c) ==
  Cardinality({r \in ReelIds : reels[r].exists /\ reels[r].isActive /\ reels[r].category = c})

\* C6: whenever no request is under way, each category's reelsCount is the
\* number of stored reels of that category with isActive = true (a category
\* without a document counts as 0).
C6_CounterIsActiveReels ==
  Quiet => \A c \in Cats : categories[c].reelsCount = ActiveIn(c)

\* ------------------------------------------------ counter specification
\* Creates and deletes served one at a time, from categories that are
\* absent or have reelsCount 0.
OneAtATime == {1}

InitCounter ==
  /\ reels = [r \in 1..CounterReels |-> NoReel]
  /\ \E present \in SUBSET Cats :
       categories = [c \in Cats |-> IF c \in present
                                    THEN [present |-> TRUE, reelsCount |-> 0]
                                    ELSE NoCategory]
  /\ userReels = [u \in 1..CounterUsers |-> {}]
  /\ likedReels = [u \in 1..CounterUsers |-> {}]
  /\ savedReels = [u \in 1..CounterUsers |-> {}]
  /\ preferredCategories = [u \in 1..CounterUsers |-> {}]
  /\ blobs = {}
  /\ now = 0
  /\ nextId = 1
  /\ pc = [p \in OneAtATime |-> "idle"]
  /\ req = [p \in OneAtATime |-> NoReq]
  /\ budget = CounterReq

NextCounter ==
  \/ \E p \in Procs, u \in Users, cat \in Cats : CreateUpload(p, u, cat)
  \/ \E p \in Procs : CreateSave(p)
  \/ \E p \in Procs : CreateUser(p)
  \/ \E p \in Procs : CreateCategory(p)
  \/ \E p \in Procs, id \in ReelIds, u \in Users : DeleteFind(p, id, u)
  \/ \E p \in Procs : DeleteBlob(p)
  \/ \E p \in Procs : DeleteUser(p)
  \/ \E p \in Procs : DeleteCategory(p)
  \/ \E p \in Procs : DeleteReel(p)
  \/ \E p \in Procs : Respond(p)

SpecCounter == InitCounter /\ [][NextCounter]_vars

StoredIn(c) == Cardinality({r \in ReelIds : reels[r].exists /\ reels[r].category = c})

\* the reels ever created are 1 .. nextId - 1; those no longer stored were deleted
Created == nextId - 1
Deleted == Created - Cardinality({r \in ReelIds : reels[r].exists})

\* C5: with requests served one at a time and counters starting at 0 or
\* absent, after every request each category's reelsCount is the number of
\* reels created in it minus the number deleted from it, that is the number
\* of its reels still stored; a delete that answers 404 or 403 leaves every
\* counter as it was.
C5_CounterIsCreatesMinusDeletes ==
  [][ \A p \in Procs :
        /\ (pc'[p] = "done" /\ pc[p] # "done")
             => \A c \in Cats : categories'[c].reelsCount = StoredIn(c)'
        /\ (pc'[p] = "done" /\ pc[p] # "done" /\ req'[p].status \in {403, 404})
             => categories' = categories /\ reels' = reels ]_vars

\* two reels were created in one category that had no document, and the
\* delete of one of them has just been answered: the counter is 2 - 1
C5_TwoCreatedOneDeleted ==
  \E p \in Procs, c \in Cats :
    /\ pc[p] = "done" /\ req[p].op = "delete" /\ req[p].status = 200
    /\ req[p].orig.category = c
    /\ Created = 2 /\ Deleted = 1
    /\ StoredIn(c) = 1
    /\ categories[c].reelsCount = 1

\* ----------------------------------------- reconciliation specification
\* Stored, active reels, the first of them possibly a legacy reel without
\* cloudinaryVideoId; feeds and orphan cleanups run against a Cloudinary
\* that loses videos and answers with errors.
\* the one user of this specification, author of its reels
Uploader == {1}

InitRecon ==
  /\ \E legacy \in SUBSET {1} :
       /\ reels = [r \in 1..ReconReels |->
                     [NoReel EXCEPT !.exists = TRUE, !.author = 1, !.category = "Comedy",
                                    !.cloudinaryVideoId = IF r \in legacy THEN 0 ELSE r,
                                    !.isActive = TRUE, !.isApproved = TRUE]]
       /\ blobs = (1..ReconReels) \ legacy
  /\ categories = [c \in Cats |-> IF c = "Comedy"
                                  THEN [present |-> TRUE, reelsCount |-> ReconReels]
                                  ELSE NoCategory]
  /\ userReels = [u \in Uploader |-> 1..ReconReels]
  /\ likedReels = [u \in Uploader |-> {}]
  /\ savedReels = [u \in Uploader |-> {}]
  /\ preferredCategories = [u \in Uploader |-> {}]
  /\ now = 0
  /\ nextId = ReconReels + 1
  /\ pc = [p \in 1..ReconProcs |-> "idle"]
  /\ req = [p \in 1..ReconProcs |-> NoReq]
  /\ budget = ReconReq

NextRecon ==
  \/ \E p \in Procs, shouldValidate \in BOOLEAN : FeedFind(p, shouldValidate)
  \/ \E p \in Procs : FeedValidate(p)
  \/ \E p \in Procs : FeedMark(p)
  \/ \E p \in Procs : FeedCount(p)
  \/ \E p \in Procs, u \in Users : SweepFind(p, u)
  \/ \E p \in Procs : SweepValidate(p)
  \/ \E p \in Procs : SweepLookup(p)
  \/ \E p \in Procs : SweepPull(p)
  \/ \E p \in Procs : SweepCategory(p)
  \/ \E p \in Procs : SweepDelete(p)
  \/ \E id \in ReelIds : BlobLost(id)
  \/ \E p \in Procs : Respond(p)

SpecRecon == InitRecon /\ [][NextRecon]_vars

\* the request of p saw reel r without cloudinaryVideoId, or Cloudinary
\* answered its check of r with 404
Definitive(p, r) ==
  \/ \E k \in 1..Len(req[p].found) :
       req[p].found[k].id = r /\ req[p].found[k].cloudinaryVideoId = 0
  \/ <<r, HttpNotFound>> \in req[p].checks

Reconciles(p) == pc[p] \in {"feed_mark", "sweep_delete"} /\ pc'[p] # pc[p]

\* C10: a reel is marked inactive or removed by the feed's validation or
\* the orphan cleanup only if it has no cloudinaryVideoId or its existence
\* check was answered 404; a reel whose check ended in any other error is
\* kept among the valid ones.
C10_OnlyDefinitiveAbsenceInvalidates ==
  [][ /\ \A r \in ReelIds :
           ( \/ reels[r].isActive /\ ~reels'[r].isActive
             \/ reels[r].exists /\ ~reels'[r].exists )
           => \E p \in Procs : Reconciles(p) /\ Definitive(p, r)
      /\ \A p \in Procs : \A ck \in req'[p].checks :
           ck[2] # HttpNotFound => /\ ck[1] \in Range(req'[p].valid)
                                   /\ ck[1] \notin Range(req'[p].invalid) ]_vars

\* an orphan cleanup has removed a reel whose check was answered 404 and
\* has kept a reel whose check ended in another error
C10_RemovedOn404KeptOnError ==
  \E p \in Procs, r, k \in ReelIds :
    /\ pc[p] = "done" /\ req[p].op = "sweep" /\ req[p].status = 200
    /\ <<r, HttpNotFound>> \in req[p].checks /\ ~reels[r].exists
    /\ \E code \in {420, 0} : <<k, code>> \in req[p].checks
    /\ reels[k].exists /\ reels[k].isActive

\* --------------------------------------- batch validation specification
\* validateReelsBatch(reels, batchSize, delayMs) called on all stored reels
\* with a batch size of the caller's choice (req.n holds it).
BatchCall(p, batchSize) ==
  /\ Idle(p) /\ CanStart
  /\ budget' = budget - 1
  /\ LET found == Lean(SeqAsc({r \in ReelIds : reels[r].exists}))
     IN Goto(p, IF found = <<>> THEN "batch_return" ELSE "batch_validate",
             [NoReq EXCEPT !.op = "batch", !.n = batchSize, !.found = found])
  /\ UNCHANGED <<reels, categories, userReels, likedReels, savedReels, preferredCategories, blobs, now, nextId>>

BatchValidate(p) ==
  /\ pc[p] = "batch_validate"
  /\ ValidateChunk(p, req[p].n, "batch_sleep", "batch_return", "done")
  /\ UNCHANGED <<reels, categories, userReels, likedReels, savedReels, preferredCategories, blobs, now, nextId, budget>>

BatchReturn(p) ==
  /\ pc[p] = "batch_return"
  /\ Reply(p, req[p], 200)
  /\ UNCHANGED <<reels, categories, userReels, likedReels, savedReels, preferredCategories, blobs, now, nextId, budget>>

\* Stored reels, any of them a legacy reel without cloudinaryVideoId; the
\* videos of the others exist until Cloudinary loses them.
InitBatch ==
  /\ \E stored \in 0..BatchReels, legacy \in SUBSET (1..BatchReels) :
       /\ legacy \subseteq 1..stored
       /\ reels = [r \in 1..BatchReels |->
                     IF r <= stored
                     THEN [NoReel EXCEPT !.exists = TRUE, !.author = 1, !.category = "Comedy",
                                         !.cloudinaryVideoId = IF r \in legacy THEN 0 ELSE r,
                                         !.isActive = TRUE, !.isApproved = TRUE]
                     ELSE NoReel]
       /\ blobs = (1..stored) \ legacy
       /\ categories = [c \in Cats |-> IF c = "Comedy"
                                       THEN [present |-> TRUE, reelsCount |-> stored]
                                       ELSE NoCategory]
       /\ userReels = [u \in Uploader |-> 1..stored]
  /\ likedReels = [u \in Uploader |-> {}]
  /\ savedReels = [u \in Uploader |-> {}]
  /\ preferredCategories = [u \in Uploader |-> {}]
  /\ now = 0
  /\ nextId = BatchReels + 1
  /\ pc = [p \in OneAtATime |-> "idle"]
  /\ req = [p \in OneAtATime |-> NoReq]
  /\ budget = BatchReq

NextBatch ==
  \/ \E p \in Procs, batchSize \in 1..MaxBatch : BatchCall(p, batchSize)
  \/ \E p \in Procs : BatchValidate(p)
  \/ \E p \in Procs : Sleep(p)
  \/ \E p \in Procs : BatchReturn(p)
  \/ \E id \in ReelIds : BlobLost(id)
  \/ \E p \in Procs : Respond(p)

SpecBatch == InitBatch /\ [][NextBatch]_vars

FoundIds(q) == [k \in 1..Len(q.found) |-> q.found[k].id]
Legacy(q)   == {q.found[k].id : k \in {j \in 1..Len(q.found) : q.found[j].cloudinaryVideoId = 0}}
Checked(q)  == {ck[1] : ck \in q.checks}

\* C11: when validateReelsBatch returns, validReels and invalidReelIds
\* partition the input, each in input order; an item is invalid iff it has
\* no cloudinaryVideoId or its check was answered 404; an item whose check
\* ended in another error is valid; an item without cloudinaryVideoId was
\* not checked and every other item was checked once -- whatever the batch
\* size.
C11_BatchPartitionsInput ==
  \A p \in Procs :
    (pc[p] = "done" /\ req[p].op = "batch") =>
      LET q   == req[p]
          ids == FoundIds(q)
          bad == Legacy(q) \cup {r \in Range(ids) : <<r, HttpNotFound>> \in q.checks}
      IN /\ q.invalid = SelectSeq(ids, LAMBDA r : r \in bad)
         /\ q.valid = SelectSeq(ids, LAMBDA r : r \notin bad)
         /\ Checked(q) = Range(ids) \ Legacy(q)
         /\ Cardinality(q.checks) = Cardinality(Checked(q))
         /\ \A ck \in q.checks : ck[2] \notin {200, HttpNotFound} => ck[1] \in Range(q.valid)

\* three reels validated in batches of two: one has no cloudinaryVideoId,
\* one was answered 404, the check of the third timed out
C11_MixedBatchOfThree ==
  \E p \in Procs :
    /\ pc[p] = "done" /\ req[p].op = "batch" /\ req[p].n = 2
    /\ Len(req[p].found) = 3
    /\ req[p].found[1].cloudinaryVideoId = 0
    /\ <<2, HttpNotFound>> \in req[p].checks
    /\ <<3, 0>> \in req[p].checks
    /\ req[p].valid = <<3>> /\ req[p].invalid = <<1, 2>>

\* ------------------------------------------------ invalidation properties
\* the feed request of p applies markInvalidReelsInactive in this step
Invalidates(p) == pc[p] = "feed_mark" /\ pc'[p] = "feed_count"

\* the reels of category c that this application turns from active to inactive
NewlyInvalid(p, c) ==
  {r \in Range(req[p].invalid) :
     reels[r].exists /\ reels[r].isActive /\ reels[r].category = c}

\* C12: every application of markInvalidReelsInactive leaves each stored
\* reel it names inactive, and each category's reelsCount lower by the
\* number of its reels that were active before: a reel's first invalidation
\* decrements its counter once, a second one changes nothing.
C12_InvalidateDecrementsOnce ==
  [][ \A p \in Procs : Invalidates(p) =>
        /\ \A r \in Range(req[p].invalid) :
             /\ reels[r].exists => reels'[r].exists /\ ~reels'[r].isActive
             /\ (reels[r].exists /\ ~reels[r].isActive) => reels'[r] = reels[r]
        /\ \A c \in Cats :
             categories'[c].reelsCount =
               categories[c].reelsCount - Cardinality(NewlyInvalid(p, c)) ]_vars

\* --------------------------------------------------- removal properties
\* C13: a reel's document leaves the store only in the last step of a
\* DELETE /:id issued by its author or by an administrator; the feed's
\* validation and the orphan cleanup never remove a document.
C13_OnlyExplicitDeleteRemoves ==
  [][ \A r \in ReelIds :
        (reels[r].exists /\ ~reels'[r].exists)
        => \E p \in Procs :
             /\ pc[p] = "delete_reel" /\ pc'[p] = "done" /\ req[p].reel = r
             /\ \/ req[p].orig.author = req[p].user
                \/ Role(req[p].user) = "admin" ]_vars

\* ------------------------------------ POST /api/users/save-reel/:reelId
\* (savedReels is kept as a set: what matters here is which ids it holds)
SaveReelFind(p, id, u) ==
  /\ Idle(p) /\ CanStart
  /\ budget' = budget - 1
  /\ LET reel == reels[id]
         q    == [NoReq EXCEPT !.op = "savereel", !.reel = id, !.user = u, !.orig = reel]
     IN IF ~reel.exists
        THEN Reply(p, q, 404)
        ELSE Goto(p, "savereel_user", q)
  /\ UNCHANGED <<reels, categories, userReels, likedReels, savedReels, preferredCategories, blobs, now, nextId>>

\* User.findById, then pull or push on the loaded user
SaveReelUser(p) ==
  /\ pc[p] = "savereel_user"
  /\ Goto(p, "savereel_save", [req[p] EXCEPT !.flag = req[p].reel \notin savedReels[req[p].user]])
  /\ UNCHANGED <<reels, categories, userReels, likedReels, savedReels, preferredCategories, blobs, now, nextId, budget>>

SaveReelSave(p) ==
  /\ pc[p] = "savereel_save"
  /\ savedReels' = [savedReels EXCEPT ![req[p].user] =
                      IF req[p].flag THEN @ \cup {req[p].reel} ELSE @ \ {req[p].reel}]
  /\ Reply(p, req[p], 200)
  /\ UNCHANGED <<reels, categories, userReels, likedReels, blobs, now, nextId, budget, preferredCategories>>

\* ------------------------------------------- user index specification
\* One stored reel of user 1 that users like and save, and that is then
\* deleted by its author or an administrator, or cleaned up as an orphan.
InitIndex ==
  /\ reels = [r \in OneAtATime |->
                [NoReel EXCEPT !.exists = TRUE, !.author = 1, !.category = "Comedy",
                               !.cloudinaryVideoId = 1, !.isActive = TRUE,
                               !.isApproved = TRUE]]
  /\ categories = [c \in Cats |-> IF c = "Comedy" THEN [present |-> TRUE, reelsCount |-> 1]
                                  ELSE NoCategory]
  /\ userReels = [u \in 1..IndexUsers |-> IF u = 1 THEN {1} ELSE {}]
  /\ likedReels = [u \in 1..IndexUsers |-> {}]
  /\ savedReels = [u \in 1..IndexUsers |-> {}]
  /\ preferredCategories = [u \in 1..IndexUsers |-> {}]
  /\ blobs = {1}
  /\ now = 0
  /\ nextId = 2
  /\ pc = [p \in 1..IndexProcs |-> "idle"]
  /\ req = [p \in 1..IndexProcs |-> NoReq]
  /\ budget = IndexReq

NextIndex ==
  \/ \E p \in Procs, id \in ReelIds, u \in Users : LikeFind(p, id, u)
  \/ \E p \in Procs : LikeSave(p)
  \/ \E p \in Procs : LikeUser(p)
  \/ \E p \in Procs, id \in ReelIds, u \in Users : SaveReelFind(p, id, u)
  \/ \E p \in Procs : SaveReelUser(p)
  \/ \E p \in Procs : SaveReelSave(p)
  \/ \E p \in Procs, id \in ReelIds, u \in Users : DeleteFind(p, id, u)
  \/ \E p \in Procs : DeleteBlob(p)
  \/ \E p \in Procs : DeleteUser(p)
  \/ \E p \in Procs : DeleteCategory(p)
  \/ \E p \in Procs : DeleteReel(p)
  \/ \E p \in Procs, u \in Users : SweepFind(p, u)
  \/ \E p \in Procs : SweepValidate(p)
  \/ \E p \in Procs : SweepLookup(p)
  \/ \E p \in Procs : SweepPull(p)
  \/ \E p \in Procs : SweepCategory(p)
  \/ \E p \in Procs : SweepDelete(p)
  \/ \E id \in ReelIds : BlobLost(id)
  \/ \E p \in Procs : Respond(p)

SpecIndex == InitIndex /\ [][NextIndex]_vars

\* the step in which the request of p removes the document of its reel
Removes(p) == pc[p] \in {"delete_reel", "sweep_delete"} /\ pc'[p] # pc[p]

\* C14: when a reel's document has just been removed for good, no user
\* holds its id in reels, savedReels or likedReels.
C14_DeletedIdInNoIndex ==
  [][ \A p \in Procs : Removes(p) =>
        \A u \in Users :
          req[p].reel \notin userReels'[u] \cup savedReels'[u] \cup likedReels'[u] ]_vars

\* ---------------------------------------------- category change property
\* C15: in the very step in which a stored reel's category changes, the
\* old category's reelsCount goes down by one and the new category's goes
\* up by one, so no state shows the reel moved with the counters unmoved or
\* moved twice.
C15_CategoryChangeMovesCount ==
  [][ \A r \in ReelIds :
        (reels[r].exists /\ reels'[r].exists /\ reels'[r].category # reels[r].category)
        => /\ categories'[reels[r].category].reelsCount =
                categories[reels[r].category].reelsCount - 1
           /\ categories'[reels'[r].category].reelsCount =
                categories[reels'[r].category].reelsCount + 1 ]_vars

\* ------------------------------------ concurrent counter specification
\* StoredReels reels of user 1 are stored in Comedy and counted; every
\* process serves one create or one delete, all of them overlapping at will.
InitCount(c) == IF c = "Comedy" THEN StoredReels ELSE 0

InitAtomic ==
  /\ reels = [r \in 1..(StoredReels + NewReels) |->
                IF r <= StoredReels
                THEN [NoReel EXCEPT !.exists = TRUE, !.author = 1, !.category = "Comedy",
                                    !.cloudinaryVideoId = r, !.isActive = TRUE,
                                    !.isApproved = TRUE]
                ELSE NoReel]
  /\ categories = [c \in Cats |-> IF c = "Comedy"
                                  THEN [present |-> TRUE, reelsCount |-> InitCount(c)]
                                  ELSE NoCategory]
  /\ userReels = [u \in Uploader |-> 1..StoredReels]
  /\ likedReels = [u \in Uploader |-> {}]
  /\ savedReels = [u \in Uploader |-> {}]
  /\ preferredCategories = [u \in Uploader |-> {}]
  /\ blobs = 1..StoredReels
  /\ now = 0
  /\ nextId = StoredReels + 1
  /\ pc = [p \in 1..AtomicProcs |-> "idle"]
  /\ req = [p \in 1..AtomicProcs |-> NoReq]
  /\ budget = AtomicProcs

NextAtomic ==
  \/ \E p \in Procs, u \in Users, cat \in Cats : CreateUpload(p, u, cat)
  \/ \E p \in Procs : CreateSave(p)
  \/ \E p \in Procs : CreateUser(p)
  \/ \E p \in Procs : CreateCategory(p)
  \/ \E p \in Procs, id \in ReelIds, u \in Users : DeleteFind(p, id, u)
  \/ \E p \in Procs : DeleteBlob(p)
  \/ \E p \in Procs : DeleteUser(p)
  \/ \E p \in Procs : DeleteCategory(p)
  \/ \E p \in Procs : DeleteReel(p)

SpecAtomic == InitAtomic /\ [][NextAtomic]_vars

\* the creations in category c and the deletions from it that were answered
CreatedIn(c) == {p \in Procs : pc[p] = "done" /\ req[p].op = "create" /\ req[p].body = c}
DeletedFrom(c) ==
  {p \in Procs : /\ pc[p] = "done" /\ req[p].op = "delete" /\ req[p].status = 200
                 /\ req[p].orig.category = c}
\* the deletions are of reels stored from the start, no two of the same reel
DistinctDeletes ==
  /\ \A p \in Procs : req[p].op = "delete" => req[p].reel \in 1..StoredReels
  /\ \A p, q \in Procs :
       (p # q /\ req[p].op = "delete" /\ req[q].op = "delete") => req[p].reel # req[q].reel

\* C16: once every request has been answered, however the K creations in a
\* category and the J deletions of distinct reels stored from the start
\* interleaved,
\* the category's reelsCount is its initial value + K - J.
C16_NoLostCounterUpdate ==
  (Quiet /\ DistinctDeletes) =>
    \A c \in Cats :
      categories[c].reelsCount =
        InitCount(c) + Cardinality(CreatedIn(c)) - Cardinality(DeletedFrom(c))

\* two creations in Comedy have been answered
C16_TwoCreatesAnswered ==
  /\ Quiet /\ DistinctDeletes
  /\ Cardinality(CreatedIn("Comedy")) = 2
  /\ categories["Comedy"].reelsCount = InitCount("Comedy") + 2

\* -------------------------------------- sequential like specification
\* One stored reel already liked by some of the users (at hour 0); likes
\* are toggled one request after the other while the clock advances.
InitToggle ==
  /\ \E likers \in SUBSET (1..ToggleUsers) :
       /\ reels = [r \in OneAtATime |->
                     [NoReel EXCEPT !.exists = TRUE, !.author = 1, !.category = "Comedy",
                                    !.cloudinaryVideoId = 1, !.isActive = TRUE,
                                    !.isApproved = TRUE,
                                    !.likes = [k \in 1..Cardinality(likers) |->
                                                 [user |-> SeqAsc(likers)[k], at |-> 0]]]]
       /\ likedReels = [u \in 1..ToggleUsers |-> IF u \in likers THEN {1} ELSE {}]
  /\ categories = [c \in Cats |-> IF c = "Comedy" THEN [present |-> TRUE, reelsCount |-> 1]
                                  ELSE NoCategory]
  /\ userReels = [u \in 1..ToggleUsers |-> IF u = 1 THEN {1} ELSE {}]
  /\ savedReels = [u \in 1..ToggleUsers |-> {}]
  /\ preferredCategories = [u \in 1..ToggleUsers |-> {}]
  /\ blobs = {1}
  /\ now = 0
  /\ nextId = 2
  /\ pc = [p \in OneAtATime |-> "idle"]
  /\ req = [p \in OneAtATime |-> NoReq]
  /\ budget = ToggleReq

NextToggle ==
  \/ \E p \in Procs, id \in ReelIds, u \in Users : LikeFind(p, id, u)
  \/ \E p \in Procs : LikeSave(p)
  \/ \E p \in Procs : LikeUser(p)
  \/ \E p \in Procs : Respond(p)
  \/ Tick

SpecToggle == InitToggle /\ [][NextToggle]_vars

\* what POST /:id/like answers in data.likesCount: reel.likes.length
likesCount(q) == Len(q.doc.likes)

WithoutUser(likes, u) == SelectSeq(likes, LAMBDA e : e.user # u)

\* C17: with likes toggled one after the other, a toggle answers liked =
\* true iff the reel held no like of the user; it then stores the likes
\* plus one entry of the user, otherwise the likes without the user's
\* entry; the likesCount it answers is the number of likes then stored; and
\* for a user without a like, toggling twice gives liked = true, then
\* liked = false and the likes as they were.
C17_ToggleIsItsOwnInverse ==
  [][ /\ \A p \in Procs :
           (pc[p] = "like_save" /\ pc'[p] = "like_user") =>
             LET q      == req[p]
                 before == reels[q.reel].likes
                 after  == reels'[q.reel].likes
             IN /\ q.flag = (LikesBy(q.reel, q.user) = 0)
                /\ after = IF q.flag
                           THEN Append(before, [user |-> q.user, at |-> q.at])
                           ELSE WithoutUser(before, q.user)
                /\ likesCount(q) = Len(after)
                /\ likesCount(q) = Len(before) + (IF q.flag THEN 1 ELSE -1)
      /\ \A r \in ReelIds, u \in Users :
           (reels[r].exists /\ LikesBy(r, u) = 0) =>
             /\ addLikeAdds(reels[r], u)
             /\ ~addLikeAdds(addLike(reels[r], u, now), u)
             /\ addLike(addLike(reels[r], u, now), u, now').likes = reels[r].likes ]_vars

\* a user has liked the reel after hour 0 and the next toggle, the user's
\* too, has been answered liked = false: the reel holds no like of the user
C17_LikedThenUnliked ==
  \E p \in Procs :
    /\ pc[p] = "done" /\ req[p].op = "like" /\ req[p].status = 200 /\ ~req[p].flag
    /\ \E i \in 1..Len(req[p].orig.likes) :
         req[p].orig.likes[i].user = req[p].user /\ req[p].orig.likes[i].at > 0
    /\ LikesBy(req[p].reel, req[p].user) = 0
    /\ likesCount(req[p]) = Len(req[p].orig.likes) - 1

\* ------------------------------------------------- score specification
\* reel.getEngagementScore() called on a stored reel whose likes, views and
\* shares carry any of the timestamps EventHours, at any later hour of the
\* clock (req.n holds what it returns); and PUT /:id by the author, whose
\* save runs the pre-save hook.
EventHours == {0, 11}

Logs == UNION {[1..n -> [user : {1}, at : EventHours]] : n \in 0..ScoreEvents}

ScoreCall(p, id) ==
  /\ Idle(p) /\ CanStart
  /\ budget' = budget - 1
  /\ reels[id].exists
  /\ Reply(p, [NoReq EXCEPT !.op = "score", !.reel = id, !.orig = reels[id], !.at = now,
                            !.n = getEngagementScore(reels[id], now),
                            !.flag = preSave(reels[id], now).isTrending], 200)
  /\ UNCHANGED <<reels, categories, userReels, likedReels, savedReels, preferredCategories, blobs, now, nextId>>

InitScore ==
  /\ \E likes \in Logs, views \in Logs, shares \in Logs, c \in InitComments :
       reels = [r \in OneAtATime |->
                  [NoReel EXCEPT !.exists = TRUE, !.author = 1, !.category = "Comedy",
                                 !.cloudinaryVideoId = 1, !.isActive = TRUE,
                                 !.isApproved = TRUE, !.likes = likes, !.views = views,
                                 !.shares = shares, !.comments = c]]
  /\ categories = [c \in Cats |-> IF c = "Comedy" THEN [present |-> TRUE, reelsCount |-> 1]
                                  ELSE NoCategory]
  /\ userReels = [u \in Uploader |-> {1}]
  /\ likedReels = [u \in Uploader |-> {}]
  /\ savedReels = [u \in Uploader |-> {}]
  /\ preferredCategories = [u \in Uploader |-> {}]
  /\ blobs = {1}
  /\ now = TickStep
  /\ nextId = 2
  /\ pc = [p \in OneAtATime |-> "idle"]
  /\ req = [p \in OneAtATime |-> NoReq]
  /\ budget = ScoreReq

NextScore ==
  \/ \E p \in Procs, id \in ReelIds : ScoreCall(p, id)
  \/ \E p \in Procs, id \in ReelIds, u \in Users, cat \in Cats : UpdateFind(p, id, u, cat)
  \/ \E p \in Procs : UpdateSave(p)
  \/ \E p \in Procs : Respond(p)
  \/ Tick

SpecScore == InitScore /\ [][NextScore]_vars

\* the events of a log that are less than Window hours old at hour t
Recent(log, t) == {i \in 1..Len(log) : t - log[i].at < Window}
Aged(log, t)   == \A i \in 1..Len(log) : t - log[i].at > Window

\* C18: getEngagementScore returns 1 * (views of the last 24 hours) +
\* 3 * (likes of the last 24 hours) + 5 * (number of comments) +
\* 7 * (shares of the last 24 hours); a reel whose views, likes and shares
\* are all more than 24 hours old scores 5 * (number of comments).
C18_ScoreIsWeightedRecentSum ==
  \A p \in Procs :
    (pc[p] = "done" /\ req[p].op = "score") =>
      LET d == req[p].orig
          t == req[p].at
      IN /\ req[p].n = 1 * Cardinality(Recent(d.views, t)) + 3 * Cardinality(Recent(d.likes, t))
                       + 5 * d.comments + 7 * Cardinality(Recent(d.shares, t))
         /\ (Aged(d.views, t) /\ Aged(d.likes, t) /\ Aged(d.shares, t))
              => req[p].n = 5 * d.comments

\* a reel whose only engagement is two likes, both 25 hours old, scored 0
C18_OldLikesScoreZero ==
  \E p \in Procs :
    /\ pc[p] = "done" /\ req[p].op = "score" /\ req[p].n = 0
    /\ Len(req[p].orig.likes) = 2
    /\ \A i \in 1..Len(req[p].orig.likes) : req[p].at - req[p].orig.likes[i].at = 25
    /\ req[p].orig.views = <<>> /\ req[p].orig.shares = <<>> /\ req[p].orig.comments = 0

\* C19: a save that runs the pre-save hook leaves isTrending true iff the
\* reel's engagement score is above 50: true at 51, false at 50.
C19_TrendingIffScoreAbove50 ==
  [][ \A p \in Procs :
        (pc[p] = "update_save" /\ pc'[p] = "done" /\ req'[p].status = 200) =>
          LET reel  == reels'[req[p].reel]
              score == getEngagementScore(reel, now)
          IN /\ reel.isTrending = (score > 50)
             /\ score = 51 => reel.isTrending
             /\ score = 50 => ~reel.isTrending ]_vars

\* a reel with ten comments and one view was trending (score 51) when the
\* save was prepared; the view is now a day old, the score is exactly 50,
\* and the save has left isTrending false
C19_FiftyOneThenFifty ==
  \E p \in Procs :
    /\ pc[p] = "done" /\ req[p].op = "update" /\ req[p].status = 200
    /\ req[p].orig.isTrending
    /\ req[p].orig.comments = 10 /\ Len(req[p].orig.views) = 1
    /\ req[p].orig.likes = <<>> /\ req[p].orig.shares = <<>>
    /\ getEngagementScore(reels[req[p].reel], now) = 50
    /\ ~reels[req[p].reel].isTrending

\* ------------------------------------------------ PUT /api/users/profile
\* The values the User schema accepts in preferredCategories: the category
\* names, of which the model keeps Cats.
preferenceEnum == Cats

\* The preferredCategories a profile update may carry: none, an accepted
\* name, and lists that ask for NSFW.
PrefChoices == {{}, {"News"}, {"NSFW"}, {"Comedy", "NSFW"}}

\* const user = await User.findById(req.user._id); sent: the body carries
\* preferredCategories.
ProfileFind(p, u, sent, prefs) ==
  /\ Idle(p) /\ CanStart
  /\ budget' = budget - 1
  /\ Goto(p, "profile_save", [NoReq EXCEPT !.op = "profile", !.user = u, !.flag = sent,
                                           !.prefs = IF sent THEN prefs
                                                     ELSE preferredCategories[u]])
  /\ UNCHANGED <<reels, categories, userReels, likedReels, savedReels, preferredCategories,
                 blobs, now, nextId>>

\* await user.save(): a value outside the enum fails validation, nothing is
\* written and the handler answers 500.
ProfileSave(p) ==
  /\ pc[p] = "profile_save"
  /\ IF req[p].prefs \subseteq preferenceEnum
     THEN /\ preferredCategories' = IF req[p].flag
                                    THEN [preferredCategories EXCEPT ![req[p].user] = req[p].prefs]
                                    ELSE preferredCategories
          /\ Reply(p, req[p], 200)
     ELSE /\ UNCHANGED preferredCategories
          /\ Reply(p, req[p], 500)
  /\ UNCHANGED <<reels, categories, userReels, likedReels, savedReels, blobs, now, nextId,
                 budget>>

\* ------------------------------------------------------ the public feeds
\* The stored reels belong to two authors in turn; one of them has an account
\* in the model and sends requests.
Authors == {1, 2}

authorOf(r) == IF r % 2 = 1 THEN 1 ELSE 2

\* Stored reels of every moderation state; guests and the registered user ask
\* for the feed and the trending list, the user edits their preferences, and
\* videos may vanish from Cloudinary.
InitFeed ==
  /\ \E hidden \in SUBSET (1..FeedReels), pending \in SUBSET (1..FeedReels),
        nsfw \in SUBSET (1..FeedReels) :
       reels = [r \in 1..FeedReels |->
                  [NoReel EXCEPT !.exists = TRUE, !.author = authorOf(r),
                                 !.category = IF r = 1 THEN "Comedy" ELSE "News",
                                 !.cloudinaryVideoId = r,
                                 !.isActive = r \notin hidden,
                                 !.isApproved = r \notin pending,
                                 !.isNSFW = r \in nsfw,
                                 !.isTrending = (r % 2 = 1)]]
  /\ blobs = 1..FeedReels
  /\ categories = [c \in Cats |-> [present |-> TRUE,
                                   reelsCount |-> Cardinality({r \in 1..FeedReels :
                                       c = IF r = 1 THEN "Comedy" ELSE "News"})]]
  /\ userReels = [u \in Uploader |->
                    {r \in 1..FeedReels : authorOf(r) = u}]
  /\ likedReels = [u \in Uploader |-> {}]
  /\ savedReels = [u \in Uploader |-> {}]
  /\ preferredCategories = [u \in Uploader |-> {}]
  /\ now = 0
  /\ nextId = FeedReels + 1
  /\ pc = [p \in OneAtATime |-> "idle"]
  /\ req = [p \in OneAtATime |-> NoReq]
  /\ budget = FeedReq

NextFeed ==
  \/ \E p \in Procs, u \in Users \cup {Anon}, category \in Cats \cup {""},
        userId \in Authors \cup {0}, shouldValidate \in BOOLEAN :
       FeedQuery(p, u, category, userId, shouldValidate)
  \/ \E p \in Procs : FeedValidate(p)
  \/ \E p \in Procs : FeedMark(p)
  \/ \E p \in Procs : FeedCount(p)
  \/ \E p \in Procs, u \in Users \cup {Anon} : TrendingQuery(p, u)
  \/ \E p \in Procs, u \in Users, sent \in BOOLEAN, prefs \in PrefChoices :
       ProfileFind(p, u, sent, prefs)
  \/ \E p \in Procs : ProfileSave(p)
  \/ \E id \in ReelIds : BlobLost(id)
  \/ \E p \in Procs : Respond(p)

SpecFeed == InitFeed /\ [][NextFeed]_vars

\* The items a finished feed or trending request returns, as it read them.
Returned(q) == {q.found[k] : k \in {j \in 1..Len(q.found) : q.found[j].id \in Range(q.valid)}}

\* C20: every item a feed or trending query returns is active and approved,
\* and is NSFW only if the requester is a user whose preferences hold
\* "NSFW"; a guest never receives an NSFW item, whatever the other filters.
C20_FeedsReturnOnlyVisibleReels ==
  \A p \in Procs :
    (pc[p] = "done" /\ req[p].op \in {"feed", "trending"} /\ req[p].status = 200) =>
      \A item \in Returned(req[p]) :
        /\ item.isActive /\ item.isApproved
        /\ item.isNSFW => (req[p].user # Anon /\ "NSFW" \in req[p].prefs)
        /\ req[p].user = Anon => ~item.isNSFW

\* a guest's feed request has returned an item while an active, approved
\* NSFW reel is stored that the answer leaves out
C20_GuestFeedOmitsNsfwReel ==
  \E p \in Procs :
    /\ pc[p] = "done" /\ req[p].op = "feed" /\ req[p].user = Anon /\ req[p].status = 200
    /\ Returned(req[p]) # {}
    /\ \E r \in ReelIds :
         /\ reels[r].exists /\ reels[r].isActive /\ reels[r].isApproved /\ reels[r].isNSFW
         /\ \A item \in Returned(req[p]) : item.id # r

\* ------------------------------------- GET /api/reels, the earlier route
\* The earlier version of the feed route: the same filter without userId, no
\* validation, the same shaping, and hasNext and hasPrev in the pagination.
LegacyFeed(p, u, category, page, limit) ==
  /\ Idle(p) /\ CanStart
  /\ budget' = budget - 1
  /\ LET prefs == IF u = Anon THEN {} ELSE preferredCategories[u]
         all   == SeqDesc({r \in ReelIds : feedFilter(reels[r], u, prefs, category, 0)})
         found == LeanReel(Paged(all, page, limit))
     IN Goto(p, "legacy_count",
             [NoReq EXCEPT !.op = "legacy_feed", !.user = u, !.prefs = prefs,
                           !.saved = IF u = Anon THEN {} ELSE savedReels[u],
                           !.category = category, !.page = page, !.limit = limit,
                           !.found = found,
                           !.valid = [k \in 1..Len(found) |-> found[k].id],
                           !.data = [k \in 1..Len(found) |->
                                       reelWithStats(found[k], u,
                                                     IF u = Anon THEN {} ELSE savedReels[u])]])
  /\ UNCHANGED <<reels, categories, userReels, likedReels, savedReels, preferredCategories,
                 blobs, now, nextId>>

LegacyCount(p) ==
  /\ pc[p] = "legacy_count"
  /\ LET q          == req[p]
         totalReels == Cardinality({r \in ReelIds :
                         feedFilter(reels[r], q.user, q.prefs, q.category, 0)})
         totalPages == Ceil(totalReels, q.limit)
     IN Reply(p, [q EXCEPT !.pagination = [currentPage |-> q.page,
                                           totalPages  |-> totalPages,
                                           totalReels  |-> totalReels,
                                           hasNext     |-> q.page < totalPages,
                                           hasPrev     |-> q.page > 1]], 200)
  /\ UNCHANGED <<reels, categories, userReels, likedReels, savedReels, preferredCategories,
                 blobs, now, nextId, budget>>

\* ------------------------------------------------------ pages of the feed
\* Visible reels with their videos, one request at a time: a guest asks
\* either route for a page, and videos may vanish from Cloudinary.
InitPage ==
  /\ reels = [r \in 1..PageReels |->
                [NoReel EXCEPT !.exists = TRUE, !.author = 1, !.category = "Comedy",
                               !.cloudinaryVideoId = r,
                               !.isActive = TRUE, !.isApproved = TRUE]]
  /\ blobs = 1..PageReels
  /\ categories = [c \in Cats |-> IF c = "Comedy"
                                  THEN [present |-> TRUE, reelsCount |-> PageReels]
                                  ELSE NoCategory]
  /\ userReels = [u \in Uploader |-> 1..PageReels]
  /\ likedReels = [u \in Uploader |-> {}]
  /\ savedReels = [u \in Uploader |-> {}]
  /\ preferredCategories = [u \in Uploader |-> {}]
  /\ now = 0
  /\ nextId = PageReels + 1
  /\ pc = [p \in OneAtATime |-> "idle"]
  /\ req = [p \in OneAtATime |-> NoReq]
  /\ budget = PageReq

NextPage ==
  \/ \E p \in Procs, page \in 1..MaxPage, limit \in 1..MaxLimit, shouldValidate \in BOOLEAN :
       FeedRequest(p, Anon, "", 0, page, limit, shouldValidate)
  \/ \E p \in Procs : FeedValidate(p)
  \/ \E p \in Procs : FeedMark(p)
  \/ \E p \in Procs : FeedCount(p)
  \/ \E p \in Procs, page \in 1..MaxPage, limit \in 1..MaxLimit :
       LegacyFeed(p, Anon, "", page, limit)
  \/ \E p \in Procs : LegacyCount(p)
  \/ \E id \in ReelIds : BlobLost(id)
  \/ \E p \in Procs : Respond(p)

SpecPage == InitPage /\ [][NextPage]_vars

Max(a, b) == IF a > b THEN a ELSE b

\* C21: a finished feed request for page p with limit L on T matching items
\* has returned min(L, max(0, T - (p-1)*L)) items, with totalPages =
\* ceil(T/L), hasNext = (p < totalPages) and hasPrev = (p > 1).
C21_PageHoldsItsShareOfTheTotal ==
  \A p \in Procs :
    (pc[p] = "done" /\ req[p].op \in {"feed", "legacy_feed"} /\ req[p].status = 200) =>
      LET T  == req[p].pagination.totalReels
          L  == req[p].limit
          pg == req[p].page
      IN /\ Len(req[p].data) = Min(L, Max(0, T - (pg - 1) * L))
         /\ req[p].pagination.totalPages = Ceil(T, L)
         /\ {"hasNext", "hasPrev"} \subseteq DOMAIN req[p].pagination
         /\ req[p].pagination.hasNext = (pg < req[p].pagination.totalPages)
         /\ req[p].pagination.hasPrev = (pg > 1)

\* C22: no item of a feed answer carries the raw likes, views or shares
\* collections; each carries the derived counts and the isLiked and isSaved
\* flags.
C22_ItemsCarryCountsNotLogs ==
  \A p \in Procs :
    (pc[p] = "done" /\ req[p].op \in {"feed", "legacy_feed", "trending"}
                    /\ req[p].status = 200) =>
      \A k \in 1..Len(req[p].data) :
        /\ DOMAIN req[p].data[k] \cap {"likes", "views", "shares"} = {}
        /\ {"likesCount", "viewsCount", "sharesCount", "commentsCount",
            "isLiked", "isSaved"} \subseteq DOMAIN req[p].data[k]

\* --------------------------------------------- likes as the readers see them
\* One stored reel without likes; one request at a time, the users like or
\* unlike it, and users and guests read it in the feed and by its id.
InitShape ==
  /\ reels = [r \in {1} |->
                [NoReel EXCEPT !.exists = TRUE, !.author = 1, !.category = "Comedy",
                               !.cloudinaryVideoId = r,
                               !.isActive = TRUE, !.isApproved = TRUE]]
  /\ blobs = {1}
  /\ categories = [c \in Cats |-> IF c = "Comedy"
                                  THEN [present |-> TRUE, reelsCount |-> 1]
                                  ELSE NoCategory]
  /\ userReels = [u \in 1..ShapeUsers |-> IF u = 1 THEN {1} ELSE {}]
  /\ likedReels = [u \in 1..ShapeUsers |-> {}]
  /\ savedReels = [u \in 1..ShapeUsers |-> {}]
  /\ preferredCategories = [u \in 1..ShapeUsers |-> {}]
  /\ now = 0
  /\ nextId = 2
  /\ pc = [p \in OneAtATime |-> "idle"]
  /\ req = [p \in OneAtATime |-> NoReq]
  /\ budget = ShapeReq

NextShape ==
  \/ \E p \in Procs, id \in ReelIds, u \in Users : LikeFind(p, id, u)
  \/ \E p \in Procs : LikeSave(p)
  \/ \E p \in Procs : LikeUser(p)
  \/ \E p \in Procs, u \in Users \cup {Anon} : FeedQuery(p, u, "", 0, FALSE)
  \/ \E p \in Procs : FeedCount(p)
  \/ \E p \in Procs, id \in ReelIds, u \in Users \cup {Anon} : ViewFind(p, id, u)
  \/ \E p \in Procs : ViewSave(p)
  \/ \E p \in Procs : Respond(p)

SpecShape == InitShape /\ [][NextShape]_vars

Likers(r) == {reels[r].likes[k].user : k \in 1..Len(reels[r].likes)}

\* C23: in the answer of the feed and of GET /:id, likesCount is the number
\* of like entries of the item and isLiked is true iff the requester is a
\* user with an entry among them; it is false for a guest.
C23_CountAndFlagFollowTheLikes ==
  \A p \in Procs :
    (pc[p] = "done" /\ req[p].op \in {"feed", "view"} /\ req[p].status = 200) =>
      \A k \in 1..Len(req[p].data) :
        LET item == req[p].data[k]
        IN /\ item.likesCount = Len(reels[item.id].likes)
           /\ item.isLiked = (req[p].user # Anon /\ req[p].user \in Likers(item.id))
           /\ req[p].user = Anon => ~item.isLiked

\* three distinct users have liked the reel and a fourth reads the feed: the
\* item shows likesCount 3 and isLiked false
C23_ThreeLikesSeenByAFourth ==
  \E p \in Procs :
    /\ pc[p] = "done" /\ req[p].op = "feed" /\ req[p].status = 200
    /\ req[p].user # Anon /\ Len(req[p].data) = 1
    /\ Cardinality(Likers(1)) = 3 /\ req[p].user \notin Likers(1)
    /\ req[p].data[1].likesCount = 3 /\ ~req[p].data[1].isLiked

\* C24: a failed deletion of the video from the blob store does not reach
\* the caller: the delete goes on, pulls the id from the author's reels,
\* decrements the category counter by one, removes the record and answers
\* success.
C24_BlobFailureDoesNotStopDelete ==
  [][ \A p \in Procs :
        /\ (pc[p] = "delete_blob" /\ pc'[p] # pc[p] /\ req'[p].blobError) =>
             pc'[p] = "delete_user"
        /\ (req[p].op = "delete" /\ req[p].blobError /\ pc'[p] # pc[p]) =>
          LET q == req[p]
          IN /\ pc[p] = "delete_user" =>
                  /\ pc'[p] = "delete_category"
                  /\ q.reel \notin userReels'[q.orig.author]
             /\ pc[p] = "delete_category" =>
                  /\ pc'[p] = "delete_reel"
                  /\ categories'[q.orig.category].reelsCount =
                       categories[q.orig.category].reelsCount - 1
             /\ pc[p] = "delete_reel" =>
                  /\ pc'[p] = "done" /\ req'[p].status = 200
                  /\ ~reels'[q.reel].exists
             /\ pc'[p] = "done" => req'[p].status = 200 ]_vars

\* the video of a reel could not be deleted from the blob store, and the
\* delete has answered success with the record gone
C24_DeletedWithItsVideoLeft ==
  \E p \in Procs :
    /\ pc[p] = "done" /\ req[p].op = "delete" /\ req[p].status = 200 /\ req[p].blobError
    /\ req[p].orig.cloudinaryVideoId \in blobs
    /\ ~reels[req[p].reel].exists
    /\ req[p].reel \notin userReels[req[p].orig.author]

\* ------------------------------------------- POST /api/reels, when a step fails
\* The error a rejected database call throws: a name and a message.
DbError == [name |-> "MongoError", message |-> "timed out"]

\* The catch block of the create handler: it deletes the video it finds at
\* error.videoResult.public_id, if the error has one.
cleanupAfter(error) ==
  IF "videoResult" \in DOMAIN error THEN {error.videoResult.public_id} ELSE {}

\* One of the awaited calls after the upload (reel.save, the $push on the
\* user, the $inc on the category) rejects: nothing is written by it, the
\* catch block runs and the handler answers 500.
CreateFault(p) ==
  /\ pc[p] \in {"create_save", "create_user", "create_category"}
  /\ blobs' = blobs \ cleanupAfter(DbError)
  /\ Reply(p, req[p], 500)
  /\ UNCHANGED <<reels, categories, userReels, likedReels, savedReels, preferredCategories,
                 now, nextId, budget>>

\* An empty database; reels are created one request at a time, and any
\* database call of a create may fail.
NextOrphan ==
  \/ \E p \in Procs, u \in Users, cat \in Cats : CreateUpload(p, u, cat)
  \/ \E p \in Procs : CreateSave(p)
  \/ \E p \in Procs : CreateUser(p)
  \/ \E p \in Procs : CreateCategory(p)
  \/ \E p \in Procs : CreateFault(p)
  \/ \E p \in Procs : Respond(p)

SpecOrphan == InitCounter /\ [][NextOrphan]_vars

\* C27: a record is saved only with its video uploaded, and a create that
\* answers an error has left no video of its own in the blob store.
C27_FailedCreateLeavesNoMedia ==
  \A p \in Procs :
    /\ (pc[p] = "create_save") => req[p].reel \in blobs
    /\ (pc[p] = "done" /\ req[p].op = "create" /\ req[p].status = 500) =>
         req[p].reel \notin blobs

\* ----------------------------------- DELETE /api/reels/:id, when a step fails
\* One of the awaited database calls of the delete (the $pull on the user,
\* the $inc on the category, findByIdAndDelete) rejects: nothing is written
\* by it, and the outer catch answers 500.
DeleteFault(p) ==
  /\ pc[p] \in {"delete_user", "delete_category", "delete_reel"}
  /\ Reply(p, req[p], 500)
  /\ UNCHANGED <<reels, categories, userReels, likedReels, savedReels, preferredCategories,
                 blobs, now, nextId, budget>>

\* The author a reel of InitAbort was stored with.
authorOfStored(r) == ((r - 1) % AbortUsers) + 1

categoryOf(r) == IF r = 1 THEN "Comedy" ELSE "News"

\* Stored reels, each in its author's index and counted in its category;
\* deletes one at a time, any database call of which may fail.
InitAbort ==
  /\ reels = [r \in 1..AbortReels |->
                [NoReel EXCEPT !.exists = TRUE, !.author = authorOfStored(r),
                               !.category = categoryOf(r), !.cloudinaryVideoId = r,
                               !.isActive = TRUE, !.isApproved = TRUE]]
  /\ categories = [c \in Cats |->
                     [present |-> TRUE,
                      reelsCount |-> Cardinality({r \in 1..AbortReels : categoryOf(r) = c})]]
  /\ userReels = [u \in 1..AbortUsers |->
                    {r \in 1..AbortReels : authorOfStored(r) = u}]
  /\ likedReels = [u \in 1..AbortUsers |-> {}]
  /\ savedReels = [u \in 1..AbortUsers |-> {}]
  /\ preferredCategories = [u \in 1..AbortUsers |-> {}]
  /\ blobs = 1..AbortReels
  /\ now = 0
  /\ nextId = AbortReels + 1
  /\ pc = [p \in OneAtATime |-> "idle"]
  /\ req = [p \in OneAtATime |-> NoReq]
  /\ budget = AbortReq

NextAbort ==
  \/ \E p \in Procs, id \in ReelIds, u \in Users : DeleteFind(p, id, u)
  \/ \E p \in Procs : DeleteBlob(p)
  \/ \E p \in Procs : DeleteUser(p)
  \/ \E p \in Procs : DeleteCategory(p)
  \/ \E p \in Procs : DeleteReel(p)
  \/ \E p \in Procs : DeleteFault(p)
  \/ \E p \in Procs : Respond(p)

SpecAbort == InitAbort /\ [][NextAbort]_vars

\* C28: a delete that has answered a failure has left the record, the
\* author's index and the category counter as they were, and one that has
\* answered success has removed the record, pulled the index entry and
\* decremented the counter once; in no state after a finished delete is the
\* record stored with its index entry or its count gone.
C28_DeleteIsAllOrNothing ==
  \A p \in Procs :
    (pc[p] = "done" /\ req[p].op = "delete") =>
      LET q == req[p]
      IN /\ \A c \in Cats : categories[c].reelsCount = StoredIn(c)
         /\ \A r \in ReelIds : reels[r].exists <=> r \in userReels[authorOfStored(r)]
         /\ IF q.status = 200 THEN ~reels[q.reel].exists ELSE reels[q.reel] = q.orig

\* C25: two toggleLike calls of different actors on one reel that follow
\* each other directly, overlapping or not, both take effect: both succeed,
\* and each actor's like is the opposite of what it was when their call
\* read the reel, as after the two toggles in either order.
C25_TogglesOfTwoActorsBothLand ==
  \A p, q \in Procs :
    ( /\ Finished(p, "like") /\ Finished(q, "like")
      /\ req[q].n = req[p].n - 1
      /\ req[p].reel = req[q].reel /\ req[p].user # req[q].user
      /\ req[p].orig.exists )
    => /\ req[p].status = 200 /\ req[q].status = 200
       /\ (LikesBy(req[p].reel, req[p].user) > 0) = (LikesIn(req[p].orig, req[p].user) = 0)
       /\ (LikesBy(req[q].reel, req[q].user) > 0) = (LikesIn(req[q].orig, req[q].user) = 0)

\* C26: whenever no request is in progress, a reel is in a user's
\* likedReels if and only if the reel's likes hold an entry of that user.
C26_LikedReelsMirrorsLikes ==
  Quiet => \A u \in Users, r \in ReelIds :
             reels[r].exists => (r \in likedReels[u] <=> LikesBy(r, u) > 0)

\* ------------------------------------------ validateReelsBatch to its end
\* The event loop runs every continuation that is ready: a chunk whose
\* checks have all settled, an elapsed delay, the return.
SpecBatchLive ==
  SpecBatch /\ WF_vars(\E p \in OneAtATime : BatchValidate(p) \/ Sleep(p) \/ BatchReturn(p))

\* What holds of a validateReelsBatch call at each of its positions: the
\* chunks done so far cover the input in order up to the position, a delay
\* has followed each of them but the last, and at the end there were
\* ceil(n / batchSize) chunks and one delay fewer (none for an empty input).
BatchProgress(p) ==
  LET q == req[p]
      n == Len(q.found)
      doneItems == {q.found[k].id : k \in 1..Min(q.chunks * q.n, n)}
  IN q.op = "batch" =>
       /\ pc[p] \in {"batch_validate", "batch_sleep"} =>
            /\ q.i = q.chunks * q.n /\ q.i < n
            /\ Checked(q) = doneItems \ Legacy(q)
            /\ Range(q.valid) \cup Range(q.invalid) = doneItems
            /\ q.sleeps = IF pc[p] = "batch_sleep" THEN q.chunks - 1 ELSE q.chunks
       /\ pc[p] \in {"batch_return", "done"} =>
            /\ q.chunks = Ceil(n, q.n)
            /\ q.sleeps = IF n = 0 THEN 0 ELSE q.chunks - 1

\* C29: every validateReelsBatch call ends, for every input and every batch
\* size of at least 1; it works through ceil(n / batchSize) chunks in input
\* order, a chunk only after the one before it is complete, and sleeps
\* between chunks only: ceil(n / batchSize) - 1 times, never for an empty
\* input.
C29_BatchEndsAfterItsChunks ==
  /\ [](\A p \in OneAtATime : BatchProgress(p))
  /\ \A p \in OneAtATime : (req[p].op = "batch") ~> (pc[p] = "done")

\* three reels were validated one per chunk: three chunks, two delays
C29_ThreeChunksTwoSleeps ==
  \E p \in Procs :
    /\ pc[p] = "done" /\ req[p].op = "batch"
    /\ Len(req[p].found) = 3 /\ req[p].n = 1
    /\ req[p].chunks = 3 /\ req[p].sleeps = 2

\* --------------------------------------------- what an update may change
\* One stored reel of user 1; updates by its author and by another user run
\* alongside likes and views of the same reel.
InitFrame ==
  /\ reels = [r \in {1} |->
                [NoReel EXCEPT !.exists = TRUE, !.author = 1, !.category = "Comedy",
                               !.cloudinaryVideoId = r,
                               !.isActive = TRUE, !.isApproved = TRUE]]
  /\ blobs = {1}
  /\ categories = [c \in Cats |-> IF c = "Comedy"
                                  THEN [present |-> TRUE, reelsCount |-> 1]
                                  ELSE NoCategory]
  /\ userReels = [u \in 1..FrameUsers |-> IF u = 1 THEN {1} ELSE {}]
  /\ likedReels = [u \in 1..FrameUsers |-> {}]
  /\ savedReels = [u \in 1..FrameUsers |-> {}]
  /\ preferredCategories = [u \in 1..FrameUsers |-> {}]
  /\ now = 0
  /\ nextId = 2
  /\ pc = [p \in 1..FrameProcs |-> "idle"]
  /\ req = [p \in 1..FrameProcs |-> NoReq]
  /\ budget = FrameReq

NextFrame ==
  \/ \E p \in Procs, id \in ReelIds, u \in Users, sent \in SUBSET {"category", "isNSFW"},
        cat \in Cats, nsfw \in BOOLEAN :
       UpdateRequest(p, id, u, sent, cat, nsfw)
  \/ \E p \in Procs : UpdateSave(p)
  \/ \E p \in Procs, id \in ReelIds, u \in Users : LikeFind(p, id, u)
  \/ \E p \in Procs : LikeSave(p)
  \/ \E p \in Procs : LikeUser(p)
  \/ \E p \in Procs, id \in ReelIds, u \in Users : ViewFind(p, id, u)
  \/ \E p \in Procs : ViewSave(p)
  \/ \E p \in Procs : Respond(p)

SpecFrame == InitFrame /\ [][NextFrame]_vars

\* The fields of a stored reel that no update may touch.
Kept(doc) == [exists |-> doc.exists, author |-> doc.author, likes |-> doc.likes,
              views |-> doc.views, shares |-> doc.shares, comments |-> doc.comments,
              isActive |-> doc.isActive, isApproved |-> doc.isApproved,
              cloudinaryVideoId |-> doc.cloudinaryVideoId]

====
